---- MODULE Spec2Model ----
(***************************************************************************)
(* ProjectScaffolder: the generation and deployment flows of the API       *)
(* routes, the datastore triggers they run against, the deployment         *)
(* pipeline and the deploy-target polling loop.                            *)
(*                                                                         *)
(* Specifications:                                                         *)
(*   Spec          the request flows (generate, deploy) on one Project     *)
(*   SpecStatus    status updates of a Project row under the trigger       *)
(*   SpecPipeline  fullDeploymentPipeline on drawn inputs                  *)
(*   SpecWait      VercelService.waitForDeployment, step by step           *)
(***************************************************************************)
EXTENDS Integers, Sequences, FiniteSets, TLC

VARIABLES
  project,          \* the Project row (public.projects)
  codeGenerations,  \* sequence of CodeGeneration rows, id = index
  deployments,      \* sequence of Deployment rows, id = index
  auditLogs,        \* sequence of AuditLog rows, in insertion order
  req,              \* per request slot: the handler's position and locals
  env,              \* credential variables present in process.env
  started,          \* number of requests accepted so far (bounded)
  refused,          \* the answer to the last request turned away at its checks
  lastUpdate,       \* SpecStatus: the last UPDATE ... SET status attempted
  pipe,             \* SpecPipeline: inputs and result of one pipeline run
  llm,              \* SpecLLM: the provider factory's singletons and last call
  push,             \* SpecPush: the clock, the temp directories, the pushFiles runs
  gdpr,             \* SpecGdpr: users, audit_logs, consent_records, requests
  parse,            \* SpecParse: one call of parseCodeGenerationResponse
  authz             \* SpecAuthz: whether the Project row exists, the last answer

vars == <<project, codeGenerations, deployments, auditLogs, req, env, started,
          refused, lastUpdate, pipe, llm, push, gdpr, parse, authz>>

(***************************************************************************)
(* Bounds of the model.                                                    *)
(***************************************************************************)
MaxRequests == 2
MaxVersion == 3

(***************************************************************************)
(* Values.                                                                 *)
(***************************************************************************)
NULL == "null"
NoError == << >>

ProjectStatus ==
  {"DRAFT", "GENERATING", "GENERATED", "DEPLOYING", "DEPLOYED", "FAILED"}
GenerationStatus == {"PENDING", "PROCESSING", "COMPLETED", "FAILED"}
DeploymentStatus == {"PENDING", "BUILDING", "SUCCESS", "FAILED", "CANCELLED"}

\* Prisma update: the columns named in data are replaced, the others kept.
Merge(row, data) ==
  [f \in DOMAIN row |-> IF f \in DOMAIN data THEN data[f] ELSE row[f]]

COALESCE(a, b) == IF a /= NULL THEN a ELSE b

(***************************************************************************)
(* Datastore triggers (supabase/triggers.sql).                             *)
(***************************************************************************)
valid_transitions ==
  [DRAFT      |-> {"GENERATING", "FAILED"},
   GENERATING |-> {"GENERATED", "FAILED"},
   GENERATED  |-> {"DEPLOYING", "DRAFT", "FAILED"},
   DEPLOYING  |-> {"DEPLOYED", "FAILED"},
   DEPLOYED   |-> {"DEPLOYING", "DRAFT"},
   FAILED     |-> {"DRAFT", "GENERATING", "DEPLOYING"}]

InvalidTransition(from, to) ==
  <<"Invalid project status transition from % to %", from, to>>

\* Mutant: the same-status shortcut is missing, so s -> s goes to the table.
trigger_validate_project_status_NoSame(OLDROW, NEWROW) ==
  IF NEWROW.status \notin valid_transitions[OLDROW.status]
  THEN InvalidTransition(OLDROW.status, NEWROW.status)
  ELSE NoError

\* Mutant: the table is the chain with FAILED, without the five extra pairs.
trigger_validate_project_status_Chain(OLDROW, NEWROW) ==
  IF OLDROW.status = NEWROW.status THEN NoError
  ELSE IF <<OLDROW.status, NEWROW.status>> \notin
            {<<"DRAFT", "GENERATING">>, <<"GENERATING", "GENERATED">>,
             <<"GENERATED", "DEPLOYING">>, <<"DEPLOYING", "DEPLOYED">>,
             <<"GENERATING", "FAILED">>, <<"DEPLOYING", "FAILED">>,
             <<"FAILED", "DRAFT">>, <<"FAILED", "GENERATING">>,
             <<"FAILED", "DEPLOYING">>}
  THEN InvalidTransition(OLDROW.status, NEWROW.status)
  ELSE NoError

\* Mutant: an in-progress status works as a lock: writing GENERATING over
\* GENERATING, or DEPLOYING over DEPLOYING, is rejected.
trigger_validate_project_status_Exclusive(OLDROW, NEWROW) ==
  IF OLDROW.status = NEWROW.status
       /\ OLDROW.status \notin {"GENERATING", "DEPLOYING"}
  THEN NoError
  ELSE IF NEWROW.status \notin valid_transitions[OLDROW.status]
  THEN InvalidTransition(OLDROW.status, NEWROW.status)
  ELSE NoError

\* BEFORE UPDATE OF status ON projects: the error raised, or NoError.
trigger_validate_project_status(OLDROW, NEWROW) ==
  IF OLDROW.status = NEWROW.status THEN NoError
  ELSE IF NEWROW.status \notin valid_transitions[OLDROW.status]
  THEN InvalidTransition(OLDROW.status, NEWROW.status)
  ELSE NoError

\* UPDATE public.projects SET data: [error, row].  The validation trigger
\* fires when status is among the columns set; RAISE EXCEPTION aborts the
\* statement, which leaves the row as it was.
ProjectUpdate(row, data) ==
  LET NEWROW == Merge(row, data)
      err == IF "status" \in DOMAIN data
             THEN trigger_validate_project_status(row, NEWROW)
             ELSE NoError
  IN [error |-> err, row |-> IF err = NoError THEN NEWROW ELSE row]

(***************************************************************************)
(* Initial rows.                                                           *)
(***************************************************************************)
\* A Project as created: status DRAFT, version 1, nothing generated.
NewProject ==
  [status |-> "DRAFT", generatedFiles |-> NULL, version |-> 1,
   deploymentUrl |-> NULL, githubRepo |-> NULL, lastDeployedAt |-> NULL]

NoUpdate ==
  [from |-> NULL, to |-> NULL, error |-> NoError, before |-> NewProject,
   after |-> NewProject]

(***************************************************************************)
(* Deployment pipeline (src/lib/deploy).  An external call either returns  *)
(* or throws; which one is the environment's choice, given as an oracle.   *)
(* Every operator returns its result together with the external calls it   *)
(* made, in order.                                                         *)
(***************************************************************************)
Tokens == {"VERCEL_TOKEN", "NETLIFY_TOKEN", "GITHUB_TOKEN"}
DeploymentProvider == {"vercel", "netlify", "github-pages"}

GitHubSteps == {"getAuthenticatedUser", "repoExists", "createRepository", "pushFiles"}
VercelSteps == {"getProject", "createProject", "setEnvironmentVariables", "deploy"}
VercelState == {"QUEUED", "BUILDING", "READY", "ERROR", "CANCELED"}
WaitOutcome == {"READY", "ERROR", "CANCELED", "TIMEOUT", "THROW"}

\* fail: the first call that throws, if it is made; exists: repoExists' answer.
GitHubOracle == [fail : GitHubSteps \cup {"none"}, exists : BOOLEAN]
\* found: whether getProject finds the project; wait: how the polling ends.
VercelOracle == [fail : VercelSteps \cup {"none"}, found : BOOLEAN, wait : WaitOutcome]

UpstreamError(service, step) == <<"upstream error", service, step>>
RepoUrl == "https://github.com/owner/repo"
DeployUrl == "https://deployment.url"

\* The array getConfiguredProviders of the deploy family builds.
getConfiguredProvidersList(e) ==
  (IF "VERCEL_TOKEN" \in e THEN <<"vercel">> ELSE << >>)
  \o (IF "NETLIFY_TOKEN" \in e THEN <<"netlify">> ELSE << >>)
  \o (IF "GITHUB_TOKEN" \in e THEN <<"github-pages">> ELSE << >>)

\* getConfiguredProviders of the deploy family.
getConfiguredProviders(e) ==
  (IF "VERCEL_TOKEN" \in e THEN {"vercel"} ELSE {})
  \cup (IF "NETLIFY_TOKEN" \in e THEN {"netlify"} ELSE {})
  \cup (IF "GITHUB_TOKEN" \in e THEN {"github-pages"} ELSE {})

\* The calls of createAndPushToGitHub's try block, up to the first throw.
GitHubCalls(o) ==
  LET c1 == <<"github.getAuthenticatedUser">>
      c2 == c1 \o <<"github.repoExists">>
      c3 == IF o.exists THEN c2 ELSE c2 \o <<"github.createRepository">>
      c4 == c3 \o <<"github.pushFiles">>
  IN IF o.fail = "getAuthenticatedUser" THEN c1
     ELSE IF o.fail = "repoExists" THEN c2
     ELSE IF o.fail = "createRepository" /\ ~o.exists THEN c3
     ELSE c4

GitHubThrows(o) ==
  \/ o.fail \in {"getAuthenticatedUser", "repoExists", "pushFiles"}
  \/ o.fail = "createRepository" /\ ~o.exists

createAndPushToGitHub(e, o) ==
  IF "GITHUB_TOKEN" \notin e
  THEN [success |-> FALSE, repoUrl |-> NULL,
        error |-> <<"GitHub token not configured">>, calls |-> << >>]
  ELSE IF GitHubThrows(o)
  THEN [success |-> FALSE, repoUrl |-> NULL,
        error |-> UpstreamError("github", o.fail), calls |-> GitHubCalls(o)]
  ELSE [success |-> TRUE, repoUrl |-> RepoUrl,
        error |-> NoError, calls |-> GitHubCalls(o)]

\* What waitForDeployment throws for each way the polling can end.
WaitError(outcome) ==
  IF outcome \in {"ERROR", "CANCELED"}
  THEN <<"Deployment failed with state: ", outcome>>
  ELSE IF outcome = "TIMEOUT" THEN <<"Deployment timed out">>
  ELSE IF outcome = "THROW" THEN UpstreamError("vercel", "getDeployment")
  ELSE NoError

VercelCalls(hasEnv, o) ==
  LET c1 == <<"vercel.getProject">>
      c2 == IF o.found THEN c1 ELSE c1 \o <<"vercel.createProject">>
      c3 == IF hasEnv THEN c2 \o <<"vercel.setEnvironmentVariables">> ELSE c2
      c4 == c3 \o <<"vercel.deploy">>
      c5 == c4 \o <<"vercel.waitForDeployment">>
  IN IF o.fail = "getProject" THEN c1
     ELSE IF o.fail = "createProject" /\ ~o.found THEN c2
     ELSE IF o.fail = "setEnvironmentVariables" /\ hasEnv THEN c3
     ELSE IF o.fail = "deploy" THEN c4
     ELSE c5

VercelThrows(hasEnv, o) ==
  \/ o.fail \in {"getProject", "deploy"}
  \/ o.fail = "createProject" /\ ~o.found
  \/ o.fail = "setEnvironmentVariables" /\ hasEnv

deployToVercel(e, hasEnv, o) ==
  IF "VERCEL_TOKEN" \notin e
  THEN [success |-> FALSE, url |-> NULL,
        error |-> <<"Vercel token not configured">>, calls |-> << >>]
  ELSE IF VercelThrows(hasEnv, o)
  THEN [success |-> FALSE, url |-> NULL,
        error |-> UpstreamError("vercel", o.fail), calls |-> VercelCalls(hasEnv, o)]
  ELSE IF o.wait /= "READY"
  THEN [success |-> FALSE, url |-> NULL,
        error |-> WaitError(o.wait), calls |-> VercelCalls(hasEnv, o)]
  ELSE [success |-> TRUE, url |-> DeployUrl,
        error |-> NoError, calls |-> VercelCalls(hasEnv, o)]

deploy(provider, e, hasEnv, o) ==
  CASE provider = "vercel" -> deployToVercel(e, hasEnv, o)
    [] provider = "netlify" ->
         [success |-> FALSE, url |-> NULL,
          error |-> <<"Netlify deployment not yet implemented">>, calls |-> << >>]
    [] provider = "github-pages" ->
         [success |-> FALSE, url |-> NULL,
          error |-> <<"GitHub Pages deployment not yet implemented">>, calls |-> << >>]
    [] OTHER ->
         [success |-> FALSE, url |-> NULL,
          error |-> <<"Unknown deployment provider: ", provider>>, calls |-> << >>]

\* Mutant: phase 2 runs whatever phase 1 returned.
fullDeploymentPipeline_NoAbort(provider, e, hasEnv, go, vo) ==
  LET githubResult == createAndPushToGitHub(e, go)
      deployResult == deploy(provider, e, hasEnv, vo)
  IN [success |-> deployResult.success, githubUrl |-> githubResult.repoUrl,
      deploymentUrl |-> deployResult.url, error |-> deployResult.error,
      calls |-> githubResult.calls \o <<"deploy">> \o deployResult.calls]

\* Mutant: the repository URL is dropped when phase 2 fails.
fullDeploymentPipeline_DropRepo(provider, e, hasEnv, go, vo) ==
  LET githubResult == createAndPushToGitHub(e, go)
      deployResult == deploy(provider, e, hasEnv, vo)
  IN IF ~githubResult.success
     THEN [success |-> FALSE, githubUrl |-> NULL, deploymentUrl |-> NULL,
           error |-> <<"GitHub setup failed: ">> \o githubResult.error,
           calls |-> githubResult.calls]
     ELSE [success |-> deployResult.success,
           githubUrl |-> IF deployResult.success THEN githubResult.repoUrl ELSE NULL,
           deploymentUrl |-> deployResult.url, error |-> deployResult.error,
           calls |-> githubResult.calls \o <<"deploy">> \o deployResult.calls]

fullDeploymentPipeline(provider, e, hasEnv, go, vo) ==
  LET githubResult == createAndPushToGitHub(e, go)
      deployResult == deploy(provider, e, hasEnv, vo)
  IN IF ~githubResult.success
     THEN [success |-> FALSE, githubUrl |-> NULL, deploymentUrl |-> NULL,
           error |-> <<"GitHub setup failed: ">> \o githubResult.error,
           calls |-> githubResult.calls]
     ELSE [success |-> deployResult.success, githubUrl |-> githubResult.repoUrl,
           deploymentUrl |-> deployResult.url, error |-> deployResult.error,
           calls |-> githubResult.calls \o <<"deploy">> \o deployResult.calls]

NoResult ==
  [success |-> FALSE, githubUrl |-> NULL, deploymentUrl |-> NULL,
   error |-> NoError, calls |-> << >>]

(***************************************************************************)
(* Idle values of the variables a specification does not use.              *)
(***************************************************************************)
Requests == 1..MaxRequests

NoSession == [id |-> NULL, role |-> NULL]
OwnerId == "u1"
\* The fields of a pipeline result the deploy handler reads.
NoFlowResult ==
  [success |-> FALSE, githubUrl |-> NULL, deploymentUrl |-> NULL,
   error |-> NoError]

NoResponse == [status |-> 0, error |-> NoError, message |-> NoError]

IdleRequest ==
  [kind |-> "none", pc |-> "idle", session |-> NoSession, provider |-> NULL,
   hasEnv |-> FALSE, project |-> NewProject, id |-> 0, files |-> NULL,
   result |-> NoFlowResult, error |-> NoError, response |-> NoResponse,
   wroteInProgress |-> FALSE, wroteTerminal |-> FALSE,
   wroteFailed |-> FALSE, writes |-> 0,
   calls |-> {}, overlapped |-> FALSE]

NoRefusal == [kind |-> "none", response |-> NoResponse]

IdlePipe ==
  [pc |-> "idle", provider |-> "vercel", hasEnv |-> FALSE,
   github |-> [fail |-> "none", exists |-> FALSE],
   vercel |-> [fail |-> "none", found |-> FALSE, wait |-> "READY"],
   result |-> NoResult]

\* The provider factory of src/lib/ai before any call: no singleton yet.
LLMProviders == {"anthropic", "openai", "gemini"}
NoCall ==
  [fn |-> "none", option |-> NULL, selected |-> NULL, configured |-> FALSE,
   backend |-> << >>, error |-> NoError, listed |-> << >>]
\* A module-level provider variable: null, or the instance with its client.
NoInstance == [created |-> FALSE, client |-> FALSE]
IdleLLM ==
  [instances |-> [p \in LLMProviders |-> NoInstance],
   defaultProvider |-> NULL, last |-> NoCall]

\* pushFiles before any invocation: the clock at 0, no temp directory.
MaxInvocations == 2
Invocations == 1..MaxInvocations
NoDir == << >>
IdleInvocation ==
  [pc |-> "idle", tempDir |-> NoDir, attempts |-> << >>, error |-> NoError,
   result |-> NULL]
IdlePush ==
  [now |-> 0, dirs |-> {}, inv |-> [i \in Invocations |-> IdleInvocation]]

\* The compliance tables before any call: every user exists, nothing logged.
Emails == {"a@x", "b@x"}
NoGdprCall ==
  [fn |-> NULL, email |-> NULL, purpose |-> NULL, success |-> FALSE,
   error |-> NoError, hadUser |-> FALSE]
IdleGdpr ==
  [now |-> 0, users |-> Emails, logs |-> << >>, created |-> << >>,
   consents |-> << >>, requests |-> << >>, last |-> NoGdprCall]

\* parseCodeGenerationResponse before it is called.
IdleParse == [pc |-> "idle", response |-> << >>, files |-> << >>,
              cause |-> NoError, error |-> NoError]

\* The project routes before any PATCH or DELETE: the row exists.
NoAnswer == [kind |-> "none", session |-> NoSession, status |-> 0]
IdleAuthz == [exists |-> TRUE, last |-> NoAnswer]

FlowIdle ==
  /\ project = NewProject
  /\ codeGenerations = << >>
  /\ deployments = << >>
  /\ auditLogs = << >>
  /\ req = [r \in Requests |-> IdleRequest]
  /\ started = 0
  /\ refused = NoRefusal

(***************************************************************************)
(* SpecStatus: UPDATE public.projects SET status = b, for every b, on a    *)
(* row that also changes otherwise.                                        *)
(***************************************************************************)
InitStatus ==
  /\ FlowIdle
  /\ env = {}
  /\ lastUpdate = NoUpdate
  /\ pipe = IdlePipe
  /\ llm = IdleLLM
  /\ push = IdlePush
  /\ gdpr = IdleGdpr
  /\ parse = IdleParse
  /\ authz = IdleAuthz

SqlUpdateStatus(b) ==
  LET u == ProjectUpdate(project, [status |-> b])
  IN /\ project' = u.row
     /\ lastUpdate' = [from |-> project.status, to |-> b, error |-> u.error,
                       before |-> project, after |-> u.row]
     /\ UNCHANGED <<codeGenerations, deployments, auditLogs, req, env, started,
                    refused, pipe, llm, push, gdpr, parse, authz>>

\* An update that does not name status (PATCH: version increment).
SqlUpdateVersion ==
  LET u == ProjectUpdate(project, [version |-> project.version + 1])
  IN /\ project.version < MaxVersion
     /\ project' = u.row
     /\ UNCHANGED <<codeGenerations, deployments, auditLogs, req, env, started,
                    refused, lastUpdate, pipe, llm, push, gdpr, parse, authz>>

NextStatus ==
  \/ \E b \in ProjectStatus : SqlUpdateStatus(b)
  \/ SqlUpdateVersion

SpecStatus == InitStatus /\ [][NextStatus]_vars

Attempted == lastUpdate.from /= NULL
Accepted == Attempted /\ lastUpdate.error = NoError
Rejected == Attempted /\ lastUpdate.error /= NoError

\* The pairs the specification lists.
ListedTransitions ==
  {<<"DRAFT", "GENERATING">>, <<"GENERATING", "GENERATED">>,
   <<"GENERATED", "DEPLOYING">>, <<"DEPLOYING", "DEPLOYED">>,
   <<"GENERATING", "FAILED">>, <<"DEPLOYING", "FAILED">>,
   <<"FAILED", "DRAFT">>, <<"FAILED", "GENERATING">>, <<"FAILED", "DEPLOYING">>}

\* The five further pairs the trigger's table holds.
FurtherTransitions ==
  {<<"DRAFT", "FAILED">>, <<"GENERATED", "DRAFT">>, <<"GENERATED", "FAILED">>,
   <<"DEPLOYED", "DEPLOYING">>, <<"DEPLOYED", "DRAFT">>}

\* C2 as stated: a change a -> b, a /= b, is accepted iff (a,b) is one of
\* the nine listed pairs.
C2_ListedOnly ==
  (Attempted /\ lastUpdate.from /= lastUpdate.to) =>
    (Accepted <=> <<lastUpdate.from, lastUpdate.to>> \in ListedTransitions)

\* C2 amended: a change a -> b, a /= b, is accepted iff (a,b) is one of the
\* nine listed pairs or one of DRAFT->FAILED, GENERATED->DRAFT,
\* GENERATED->FAILED, DEPLOYED->DEPLOYING, DEPLOYED->DRAFT; every other pair
\* is rejected.
C2_TransitionTable ==
  (Attempted /\ lastUpdate.from /= lastUpdate.to) =>
    (Accepted <=> <<lastUpdate.from, lastUpdate.to>> \in
                    ListedTransitions \cup FurtherTransitions)

\* A pair outside the nine listed ones was attempted and accepted, and a
\* pair outside the table was attempted and rejected.
C2_Witness ==
  \/ /\ Accepted
     /\ <<lastUpdate.from, lastUpdate.to>> \in FurtherTransitions
  \/ /\ Rejected
     /\ lastUpdate.from = "DEPLOYED" /\ lastUpdate.to = "GENERATING"

\* C3: an update s -> s is accepted and leaves the status at s; a rejected
\* update raises an error that carries the attempted from and to statuses,
\* and leaves the whole row as it was before the statement.
C3_NoOpAndRejection ==
  /\ (Attempted /\ lastUpdate.from = lastUpdate.to) =>
       (Accepted /\ lastUpdate.after = lastUpdate.before)
  /\ Rejected =>
       /\ Len(lastUpdate.error) = 3
       /\ lastUpdate.error[2] = lastUpdate.from
       /\ lastUpdate.error[3] = lastUpdate.to
       /\ lastUpdate.from = lastUpdate.before.status
       /\ lastUpdate.after = lastUpdate.before

\* A rejected update on a row whose version has moved on.
C3_Witness ==
  /\ Rejected
  /\ lastUpdate.from = "GENERATING" /\ lastUpdate.to = "DEPLOYED"
  /\ lastUpdate.before.version > 1

(***************************************************************************)
(* SpecPipeline: fullDeploymentPipeline on every provider, environment     *)
(* and outcome of the external calls.                                      *)
(***************************************************************************)
PipeInputs ==
  [pc : {"called"}, provider : DeploymentProvider, hasEnv : BOOLEAN,
   github : GitHubOracle, vercel : VercelOracle, result : {NoResult}]

InitPipeline ==
  /\ FlowIdle
  /\ env \in SUBSET Tokens
  /\ lastUpdate = NoUpdate
  /\ pipe \in PipeInputs
  /\ llm = IdleLLM
  /\ push = IdlePush
  /\ gdpr = IdleGdpr
  /\ parse = IdleParse
  /\ authz = IdleAuthz

PipelineReturn ==
  /\ pipe.pc = "called"
  /\ pipe' = [pipe EXCEPT
       !.pc = "returned",
       !.result = fullDeploymentPipeline(pipe.provider, env, pipe.hasEnv,
                                         pipe.github, pipe.vercel)]
  /\ UNCHANGED <<project, codeGenerations, deployments, auditLogs, req, env,
                 started, refused, lastUpdate, llm, push, gdpr, parse, authz>>

NextPipeline == PipelineReturn

SpecPipeline == InitPipeline /\ [][NextPipeline]_vars

\* Phase outcomes, from the environment and the oracle alone.
Phase1Fails == "GITHUB_TOKEN" \notin env \/ GitHubThrows(pipe.github)
Phase2Succeeds ==
  /\ pipe.provider = "vercel"
  /\ "VERCEL_TOKEN" \in env
  /\ ~VercelThrows(pipe.hasEnv, pipe.vercel)
  /\ pipe.vercel.wait = "READY"

Phase1Error ==
  IF "GITHUB_TOKEN" \notin env THEN <<"GitHub token not configured">>
  ELSE UpstreamError("github", pipe.github.fail)

IsDeployTargetCall(c) ==
  c \in {"deploy", "vercel.getProject", "vercel.createProject",
         "vercel.setEnvironmentVariables", "vercel.deploy",
         "vercel.waitForDeployment"}

\* C5: when the Source Host phase fails, deploy is not invoked (nor any
\* deploy-target call made), and the result has success false, no
\* deploymentUrl, and an error that carries the phase-1 error.
C5_Phase1FailureAborts ==
  (pipe.pc = "returned" /\ Phase1Fails) =>
    /\ \A i \in 1..Len(pipe.result.calls) : ~IsDeployTargetCall(pipe.result.calls[i])
    /\ pipe.result.success = FALSE
    /\ pipe.result.deploymentUrl = NULL
    /\ pipe.result.error /= NoError
    /\ SubSeq(pipe.result.error, 2, Len(pipe.result.error)) = Phase1Error

\* The push failed after the repository was created, with a provider and an
\* environment under which phase 2 would have succeeded.
C5_Witness ==
  /\ pipe.pc = "returned"
  /\ pipe.github.fail = "pushFiles" /\ ~pipe.github.exists
  /\ "GITHUB_TOKEN" \in env
  /\ Phase2Succeeds
  /\ Len(pipe.result.calls) = 4

\* C6: the repository URL is present iff phase 1 succeeded; the deployment
\* URL is present iff both phases succeeded, which is when success is true;
\* an error is present iff success is false.
C6_ResultContract ==
  pipe.pc = "returned" =>
    /\ (pipe.result.githubUrl /= NULL) <=> ~Phase1Fails
    /\ pipe.result.success <=> (~Phase1Fails /\ Phase2Succeeds)
    /\ (pipe.result.deploymentUrl /= NULL) <=> pipe.result.success
    /\ (pipe.result.error /= NoError) <=> ~pipe.result.success

\* Phase 1 succeeded and the polling of phase 2 timed out: the repository
\* URL is returned with the error.
C6_Witness ==
  /\ pipe.pc = "returned"
  /\ ~Phase1Fails
  /\ pipe.provider = "vercel" /\ "VERCEL_TOKEN" \in env
  /\ ~VercelThrows(pipe.hasEnv, pipe.vercel)
  /\ pipe.vercel.wait = "TIMEOUT"
  /\ pipe.result.githubUrl = RepoUrl
  /\ pipe.result.error = <<"Deployment timed out">>

(***************************************************************************)
(* Sub-entity rows and the triggers on them.                               *)
(***************************************************************************)
FileLists == {"filesA", "filesB"}

\* trail is history: the statuses the row has had, oldest first.
NewCodeGeneration ==
  [status |-> "PROCESSING", output |-> NULL, errorMessage |-> NoError,
   completedAt |-> NULL, trail |-> <<"PROCESSING">>]

NewDeployment(provider) ==
  [status |-> "PENDING", provider |-> provider, url |-> NULL,
   errorMessage |-> NoError, completedAt |-> NULL, trail |-> <<"PENDING">>]

\* The row after SET data, with its history extended on a status change.
Written(row, data) ==
  LET m == Merge(row, data)
  IN IF m.status = row.status THEN m
     ELSE [m EXCEPT !.trail = Append(@, m.status)]

\* new Date() at the completion of a generation: later than every
\* completedAt the table holds.  Times are written as strings.
CompletionTime(rows) ==
  ToString(Cardinality({k \in DOMAIN rows : rows[k].completedAt /= NULL}) + 1)

Untouched(proj) == [error |-> NoError, row |-> proj, updated |-> FALSE]
Touched(u) == [error |-> u.error, row |-> u.row, updated |-> u.error = NoError]

\* Mutant: completion leaves the Project's version as it was.
trigger_generation_completed_NoVersion(OLDROW, NEWROW, proj) ==
  IF OLDROW.status = NEWROW.status THEN Untouched(proj)
  ELSE IF NEWROW.status = "COMPLETED"
  THEN Touched(ProjectUpdate(proj,
         [status |-> "GENERATED",
          generatedFiles |-> COALESCE(NEWROW.output, proj.generatedFiles)]))
  ELSE IF NEWROW.status = "FAILED" /\ proj.status = "GENERATING"
  THEN Touched(ProjectUpdate(proj, [status |-> "FAILED"]))
  ELSE Untouched(proj)

\* AFTER UPDATE OF status ON code_generations: [error, row, updated] of the
\* Project; an error of the nested UPDATE aborts the outer statement.
trigger_generation_completed(OLDROW, NEWROW, proj) ==
  IF OLDROW.status = NEWROW.status THEN Untouched(proj)
  ELSE IF NEWROW.status = "COMPLETED"
  THEN Touched(ProjectUpdate(proj,
         [status |-> "GENERATED",
          generatedFiles |-> COALESCE(NEWROW.output, proj.generatedFiles),
          version |-> proj.version + 1]))
  ELSE IF NEWROW.status = "FAILED" /\ proj.status = "GENERATING"
  THEN Touched(ProjectUpdate(proj, [status |-> "FAILED"]))
  ELSE Untouched(proj)

\* AFTER UPDATE OF status ON deployments.
trigger_deployment_completed(OLDROW, NEWROW, proj) ==
  IF OLDROW.status = NEWROW.status THEN Untouched(proj)
  ELSE IF NEWROW.status = "SUCCESS"
  THEN Touched(ProjectUpdate(proj,
         [status |-> "DEPLOYED",
          deploymentUrl |-> COALESCE(NEWROW.url, proj.deploymentUrl),
          lastDeployedAt |-> "now"]))
  ELSE IF NEWROW.status = "FAILED" /\ proj.status = "DEPLOYING"
  THEN Touched(ProjectUpdate(proj, [status |-> "FAILED"]))
  ELSE Untouched(proj)

\* UPDATE public.code_generations SET data WHERE id: [error, row, project,
\* updated]: the new row, and the Project as the trigger leaves it.
CodeGenerationUpdate(row, proj, data) ==
  LET NEWROW == Written(row, data)
      t == IF "status" \in DOMAIN data
           THEN trigger_generation_completed(row, NEWROW, proj)
           ELSE Untouched(proj)
  IN IF t.error = NoError
     THEN [error |-> NoError, row |-> NEWROW, project |-> t.row,
           updated |-> t.updated]
     ELSE [error |-> t.error, row |-> row, project |-> proj, updated |-> FALSE]

\* UPDATE public.deployments SET data WHERE id.
DeploymentUpdate(row, proj, data) ==
  LET NEWROW == Written(row, data)
      t == IF "status" \in DOMAIN data
           THEN trigger_deployment_completed(row, NEWROW, proj)
           ELSE Untouched(proj)
  IN IF t.error = NoError
     THEN [error |-> NoError, row |-> NEWROW, project |-> t.row,
           updated |-> t.updated]
     ELSE [error |-> t.error, row |-> row, project |-> proj, updated |-> FALSE]

(***************************************************************************)
(* Audit helpers (src/lib/compliance/audit.ts).                            *)
(***************************************************************************)
createAuditLog(params) ==
  [userId |-> params.userId, action |-> params.action,
   resource |-> params.resource, resourceId |-> params.resourceId,
   severity |-> IF params.severity = NULL THEN "INFO" ELSE params.severity,
   category |-> params.category, error |-> params.error,
   subject |-> params.subject]

\* audit.create(userId, resource, resourceId, newValue)
audit_create(userId, resource, resourceId) ==
  createAuditLog([userId |-> userId, action |-> "CREATE", resource |-> resource,
                  resourceId |-> resourceId, severity |-> NULL,
                  category |-> "data_access", error |-> NoError,
                  subject |-> resourceId])

\* audit.error(userId, resource, action, error, details); subject is the
\* sub-entity id carried in details.
audit_error(userId, resource, action, error, subject) ==
  createAuditLog([userId |-> userId, action |-> action, resource |-> resource,
                  resourceId |-> 0, severity |-> "ERROR",
                  category |-> "system", error |-> error,
                  subject |-> subject])

(***************************************************************************)
(* The request handlers (src/app/api/generate/route.ts).  A datastore      *)
(* write either is applied or rejects with DbError, by the environment's   *)
(* choice; a trigger's exception rejects it as well.                       *)
(***************************************************************************)
DbError == <<"datastore error">>
ParseError == <<"Failed to parse generated code response">>

\* The ownership check that lets everyone through.
Forbidden_Never(session) == FALSE

Forbidden(session) == OwnerId /= session.id /\ session.role = "USER"

Set(r, fields) == [req EXCEPT ![r] = Merge(@, fields)]

\* NextResponse.json(body, {status}) and return.
Respond(r, status, error, message) ==
  Merge(req[r], [pc |-> "done",
                 response |-> [status |-> status, error |-> error,
                               message |-> message]])

\* The outer catch of POST /api/generate.
GenerateFailed(r, error) ==
  Respond(r, 500, <<"Failed to generate code">>, error)

\* The outer catch of POST /api/deploy.
DeployFailed(r, error) ==
  Respond(r, 500, <<"Failed to deploy">>, error)

InFlight(q) == req[q].pc \notin {"idle", "done"}

\* A request turned away at its checks: the response is all there is.
Refusal(kind, status, error) ==
  [kind |-> kind,
   response |-> [status |-> status, error |-> error, message |-> NoError]]

\* The next request past its checks, holding the Project row it read.
\* overlapped is history: whether another request ran during this one.
Accept(kind, session, fields) ==
  [q \in Requests |->
     IF q = started + 1
     THEN Merge(Merge(IdleRequest,
                      [kind |-> kind, session |-> session, project |-> project,
                       overlapped |-> \E o \in Requests : InFlight(o)]),
                fields)
     ELSE IF InFlight(q) THEN [req[q] EXCEPT !.overlapped = TRUE]
     ELSE req[q]]

SourceHostCalls ==
  {"github.getAuthenticatedUser", "github.repoExists",
   "github.createRepository", "github.pushFiles"}
DeployTargetCalls ==
  {"vercel.getProject", "vercel.createProject",
   "vercel.setEnvironmentVariables", "vercel.deploy",
   "vercel.waitForDeployment"}

\* The adapters a sequence of external calls reached.
Adapters(calls) ==
  (IF \E i \in 1..Len(calls) : calls[i] \in SourceHostCalls
   THEN {"source host"} ELSE {})
  \cup (IF \E i \in 1..Len(calls) : calls[i] \in DeployTargetCalls
        THEN {"deploy target"} ELSE {})

(***************************************************************************)
(* POST /api/generate.                                                     *)
(***************************************************************************)
NotFlow == <<lastUpdate, pipe, env, llm, push, gdpr, parse, authz>>

\* Lines 26-46: session, body, project read, ownership.
GenerateBegin(session) ==
  /\ IF session = NoSession
     THEN /\ refused' = Refusal("generate", 401, <<"Unauthorized">>)
          /\ UNCHANGED <<req, started>>
     ELSE IF Forbidden(session)
     THEN /\ refused' = Refusal("generate", 403, <<"Forbidden">>)
          /\ UNCHANGED <<req, started>>
     ELSE /\ started < MaxRequests
          /\ started' = started + 1
          /\ req' = Accept("generate", session, [pc |-> "g_setGenerating"])
          /\ UNCHANGED refused
  /\ UNCHANGED <<project, codeGenerations, deployments, auditLogs>>
  /\ UNCHANGED NotFlow

\* Lines 49-52: project.update status GENERATING.
GenerateSetGenerating(r) ==
  /\ req[r].pc = "g_setGenerating"
  /\ \E applied \in BOOLEAN :
       LET u == ProjectUpdate(project, [status |-> "GENERATING"])
           err == IF applied THEN u.error ELSE DbError
       IN IF err = NoError
          THEN /\ project' = u.row
               /\ req' = Set(r, [pc |-> "g_create", wroteInProgress |-> TRUE,
                                 writes |-> req[r].writes + 1])
          ELSE /\ project' = project
               /\ req' = [req EXCEPT ![r] = GenerateFailed(r, err)]
  /\ UNCHANGED <<codeGenerations, deployments, auditLogs, started, refused>>
  /\ UNCHANGED NotFlow

\* Lines 55-62: codeGeneration.create, status PROCESSING.
GenerateCreate(r) ==
  /\ req[r].pc = "g_create"
  /\ \E applied \in BOOLEAN :
       IF applied
       THEN /\ codeGenerations' = Append(codeGenerations, NewCodeGeneration)
            /\ req' = Set(r, [pc |-> "g_llm", id |-> Len(codeGenerations) + 1,
                              writes |-> req[r].writes + 1])
       ELSE /\ codeGenerations' = codeGenerations
            /\ req' = [req EXCEPT ![r] = GenerateFailed(r, DbError)]
  /\ UNCHANGED <<project, deployments, auditLogs, started, refused>>
  /\ UNCHANGED NotFlow

\* Lines 64-83: generate() and parseCodeGenerationResponse(): the parsed
\* files, or the error thrown.
GenerateCallLLM(r, files, error) ==
  /\ req[r].pc = "g_llm"
  /\ IF error = NoError
     THEN req' = Set(r, [pc |-> "g_complete", files |-> files,
                         calls |-> req[r].calls \cup {"llm"}])
     ELSE req' = Set(r, [pc |-> "g_catch", error |-> error,
                         calls |-> req[r].calls \cup {"llm"}])
  /\ UNCHANGED <<project, codeGenerations, deployments, auditLogs, started, refused>>
  /\ UNCHANGED NotFlow

\* Lines 86-98: codeGeneration.update COMPLETED with the output.
GenerateComplete(r) ==
  /\ req[r].pc = "g_complete"
  /\ \E applied \in BOOLEAN :
       LET u == CodeGenerationUpdate(codeGenerations[req[r].id], project,
                  [output |-> req[r].files, status |-> "COMPLETED",
                   completedAt |-> CompletionTime(codeGenerations)])
           err == IF applied THEN u.error ELSE DbError
       IN IF err = NoError
          THEN /\ codeGenerations' = [codeGenerations EXCEPT ![req[r].id] = u.row]
               /\ project' = u.project
               /\ req' = Set(r, [pc |-> "g_project",
                                 writes |-> req[r].writes + 1,
                                 wroteTerminal |-> req[r].wroteTerminal \/ u.updated])
          ELSE /\ UNCHANGED <<codeGenerations, project>>
               /\ req' = Set(r, [pc |-> "g_catch", error |-> err])
  /\ UNCHANGED <<deployments, auditLogs, started, refused>>
  /\ UNCHANGED NotFlow

\* Lines 101-107: project.update GENERATED with the files.
GenerateUpdateProject(r) ==
  /\ req[r].pc = "g_project"
  /\ \E applied \in BOOLEAN :
       LET u == ProjectUpdate(project,
                  [status |-> "GENERATED", generatedFiles |-> req[r].files])
           err == IF applied THEN u.error ELSE DbError
       IN IF err = NoError
          THEN /\ project' = u.row
               /\ req' = Set(r, [pc |-> "g_audit", writes |-> req[r].writes + 1,
                                 wroteTerminal |-> TRUE])
          ELSE /\ project' = project
               /\ req' = Set(r, [pc |-> "g_catch", error |-> err])
  /\ UNCHANGED <<codeGenerations, deployments, auditLogs, started, refused>>
  /\ UNCHANGED NotFlow

\* Lines 109-121: audit.create, then the success response.
GenerateAudit(r) ==
  /\ req[r].pc = "g_audit"
  /\ \E applied \in BOOLEAN :
       IF applied
       THEN /\ auditLogs' = Append(auditLogs,
                 audit_create(req[r].session.id, "CodeGeneration", req[r].id))
            /\ req' = [req EXCEPT ![r] =
                 Merge(Respond(r, 200, NoError, NoError),
                       [writes |-> req[r].writes + 1])]
       ELSE /\ auditLogs' = auditLogs
            /\ req' = Set(r, [pc |-> "g_catch", error |-> DbError])
  /\ UNCHANGED <<project, codeGenerations, deployments, started, refused>>
  /\ UNCHANGED NotFlow

\* Lines 122-131: catch (genError): codeGeneration.update FAILED.
GenerateCatchCodeGen(r) ==
  /\ req[r].pc = "g_catch"
  /\ \E applied \in BOOLEAN :
       LET u == CodeGenerationUpdate(codeGenerations[req[r].id], project,
                  [status |-> "FAILED", errorMessage |-> req[r].error])
           err == IF applied THEN u.error ELSE DbError
       IN IF err = NoError
          THEN /\ codeGenerations' = [codeGenerations EXCEPT ![req[r].id] = u.row]
               /\ project' = u.project
               /\ req' = Set(r, [pc |-> "g_catchProject",
                                 writes |-> req[r].writes + 1,
                                 wroteTerminal |-> req[r].wroteTerminal \/ u.updated,
                                 wroteFailed |-> u.updated])
          ELSE /\ UNCHANGED <<codeGenerations, project>>
               /\ req' = [req EXCEPT ![r] = GenerateFailed(r, err)]
  /\ UNCHANGED <<deployments, auditLogs, started, refused>>
  /\ UNCHANGED NotFlow

\* Lines 133-136: project.update FAILED.
GenerateCatchProject(r) ==
  /\ req[r].pc = "g_catchProject"
  /\ \E applied \in BOOLEAN :
       LET u == ProjectUpdate(project, [status |-> "FAILED"])
           err == IF applied THEN u.error ELSE DbError
       IN IF err = NoError
          THEN /\ project' = u.row
               /\ req' = Set(r, [pc |-> "g_catchAudit",
                                 writes |-> req[r].writes + 1,
                                 wroteTerminal |-> TRUE, wroteFailed |-> TRUE])
          ELSE /\ project' = project
               /\ req' = [req EXCEPT ![r] = GenerateFailed(r, err)]
  /\ UNCHANGED <<codeGenerations, deployments, auditLogs, started, refused>>
  /\ UNCHANGED NotFlow

\* Lines 138-146: audit.error, then throw genError to the outer catch.
GenerateCatchAudit(r) ==
  /\ req[r].pc = "g_catchAudit"
  /\ \E applied \in BOOLEAN :
       IF applied
       THEN /\ auditLogs' = Append(auditLogs,
                 audit_error(req[r].session.id, "CodeGeneration", "GENERATE",
                             req[r].error, req[r].id))
            /\ req' = [req EXCEPT ![r] =
                 Merge(GenerateFailed(r, req[r].error),
                       [writes |-> req[r].writes + 1])]
       ELSE /\ auditLogs' = auditLogs
            /\ req' = [req EXCEPT ![r] = GenerateFailed(r, DbError)]
  /\ UNCHANGED <<project, codeGenerations, deployments, started, refused>>
  /\ UNCHANGED NotFlow

(***************************************************************************)
(* POST /api/deploy.                                                       *)
(***************************************************************************)
\* Mutant: the status of the Project is not looked at.
DeployRefused_FilesOnly(proj) == proj.generatedFiles = NULL

\* Line 277: !project.generatedFiles || project.status !== "GENERATED".
DeployRefused(proj) == proj.generatedFiles = NULL \/ proj.status /= "GENERATED"

\* Lines 245-282: session, body, provider, project read, ownership, status.
DeployBegin(session, provider, hasEnv) ==
  /\ IF session = NoSession
     THEN /\ refused' = Refusal("deploy", 401, <<"Unauthorized">>)
          /\ UNCHANGED <<req, started>>
     ELSE IF provider \notin getConfiguredProviders(env)
     THEN /\ refused' = Refusal("deploy", 400,
                                <<"Provider % is not configured", provider>>)
          /\ UNCHANGED <<req, started>>
     ELSE IF Forbidden(session)
     THEN /\ refused' = Refusal("deploy", 403, <<"Forbidden">>)
          /\ UNCHANGED <<req, started>>
     ELSE IF DeployRefused(project)
     THEN /\ refused' = Refusal("deploy", 400,
                 <<"Project must have generated code before deployment">>)
          /\ UNCHANGED <<req, started>>
     ELSE /\ started < MaxRequests
          /\ started' = started + 1
          /\ req' = Accept("deploy", session,
                           [pc |-> "d_setDeploying", provider |-> provider,
                            hasEnv |-> hasEnv])
          /\ UNCHANGED refused
  /\ UNCHANGED <<project, codeGenerations, deployments, auditLogs>>
  /\ UNCHANGED NotFlow

\* Lines 285-288: project.update status DEPLOYING.
DeploySetDeploying(r) ==
  /\ req[r].pc = "d_setDeploying"
  /\ \E applied \in BOOLEAN :
       LET u == ProjectUpdate(project, [status |-> "DEPLOYING"])
           err == IF applied THEN u.error ELSE DbError
       IN IF err = NoError
          THEN /\ project' = u.row
               /\ req' = Set(r, [pc |-> "d_create", wroteInProgress |-> TRUE,
                                 writes |-> req[r].writes + 1])
          ELSE /\ project' = project
               /\ req' = [req EXCEPT ![r] = DeployFailed(r, err)]
  /\ UNCHANGED <<codeGenerations, deployments, auditLogs, started, refused>>
  /\ UNCHANGED NotFlow

\* Lines 291-297: deployment.create, status PENDING.
DeployCreate(r) ==
  /\ req[r].pc = "d_create"
  /\ \E applied \in BOOLEAN :
       IF applied
       THEN /\ deployments' = Append(deployments, NewDeployment(req[r].provider))
            /\ req' = Set(r, [pc |-> "d_building", id |-> Len(deployments) + 1,
                              writes |-> req[r].writes + 1])
       ELSE /\ deployments' = deployments
            /\ req' = [req EXCEPT ![r] = DeployFailed(r, DbError)]
  /\ UNCHANGED <<project, codeGenerations, auditLogs, started, refused>>
  /\ UNCHANGED NotFlow

\* Lines 299-304: deployment.update BUILDING.
DeployBuilding(r) ==
  /\ req[r].pc = "d_building"
  /\ \E applied \in BOOLEAN :
       LET u == DeploymentUpdate(deployments[req[r].id], project,
                                 [status |-> "BUILDING"])
           err == IF applied THEN u.error ELSE DbError
       IN IF err = NoError
          THEN /\ deployments' = [deployments EXCEPT ![req[r].id] = u.row]
               /\ project' = u.project
               /\ req' = Set(r, [pc |-> "d_pipeline",
                                 writes |-> req[r].writes + 1])
          ELSE /\ UNCHANGED <<deployments, project>>
               /\ req' = Set(r, [pc |-> "d_catch", error |-> err])
  /\ UNCHANGED <<codeGenerations, auditLogs, started, refused>>
  /\ UNCHANGED NotFlow

\* Lines 306-321, 356-358: fullDeploymentPipeline on the files read at the
\* start; a result without success is thrown as an Error.
DeployPipeline(r, go, vo) ==
  /\ req[r].pc = "d_pipeline"
  /\ LET result == fullDeploymentPipeline(req[r].provider, env, req[r].hasEnv,
                                          go, vo)
         read == [success |-> result.success, githubUrl |-> result.githubUrl,
                  deploymentUrl |-> result.deploymentUrl, error |-> result.error]
     IN IF result.success
        THEN req' = Set(r, [pc |-> "d_success", result |-> read,
                            calls |-> req[r].calls \cup Adapters(result.calls)])
        ELSE req' = Set(r, [pc |-> "d_catch", result |-> read,
                            calls |-> req[r].calls \cup Adapters(result.calls),
                            error |-> IF result.error /= NoError
                                      THEN result.error
                                      ELSE <<"Deployment failed">>])
  /\ UNCHANGED <<project, codeGenerations, deployments, auditLogs, started, refused>>
  /\ UNCHANGED NotFlow

\* Lines 323-330: deployment.update SUCCESS with the URL.
DeploySuccess(r) ==
  /\ req[r].pc = "d_success"
  /\ \E applied \in BOOLEAN :
       LET u == DeploymentUpdate(deployments[req[r].id], project,
                  [status |-> "SUCCESS", url |-> req[r].result.deploymentUrl,
                   completedAt |-> "now"])
           err == IF applied THEN u.error ELSE DbError
       IN IF err = NoError
          THEN /\ deployments' = [deployments EXCEPT ![req[r].id] = u.row]
               /\ project' = u.project
               /\ req' = Set(r, [pc |-> "d_project",
                                 writes |-> req[r].writes + 1,
                                 wroteTerminal |-> req[r].wroteTerminal \/ u.updated])
          ELSE /\ UNCHANGED <<deployments, project>>
               /\ req' = Set(r, [pc |-> "d_catch", error |-> err])
  /\ UNCHANGED <<codeGenerations, auditLogs, started, refused>>
  /\ UNCHANGED NotFlow

\* Mutant: the repository URL is not written to the Project.
DeployUpdateProject_NoRepo(r) ==
  /\ req[r].pc = "d_project"
  /\ project' = Merge(project,
                      [status |-> "DEPLOYED",
                       deploymentUrl |-> req[r].result.deploymentUrl,
                       lastDeployedAt |-> "now"])
  /\ req' = Set(r, [pc |-> "d_audit", writes |-> req[r].writes + 1,
                    wroteTerminal |-> TRUE])
  /\ UNCHANGED <<codeGenerations, deployments, auditLogs, started, refused>>
  /\ UNCHANGED NotFlow

\* Lines 333-341: project.update DEPLOYED with the URLs.
DeployUpdateProject(r) ==
  /\ req[r].pc = "d_project"
  /\ \E applied \in BOOLEAN :
       LET u == ProjectUpdate(project,
                  [status |-> "DEPLOYED",
                   deploymentUrl |-> req[r].result.deploymentUrl,
                   githubRepo |-> req[r].result.githubUrl,
                   lastDeployedAt |-> "now"])
           err == IF applied THEN u.error ELSE DbError
       IN IF err = NoError
          THEN /\ project' = u.row
               /\ req' = Set(r, [pc |-> "d_audit", writes |-> req[r].writes + 1,
                                 wroteTerminal |-> TRUE])
          ELSE /\ project' = project
               /\ req' = Set(r, [pc |-> "d_catch", error |-> err])
  /\ UNCHANGED <<codeGenerations, deployments, auditLogs, started, refused>>
  /\ UNCHANGED NotFlow

\* Lines 343-355: audit.create, then the success response.
DeployAudit(r) ==
  /\ req[r].pc = "d_audit"
  /\ \E applied \in BOOLEAN :
       IF applied
       THEN /\ auditLogs' = Append(auditLogs,
                 audit_create(req[r].session.id, "Deployment", req[r].id))
            /\ req' = [req EXCEPT ![r] =
                 Merge(Respond(r, 200, NoError, NoError),
                       [writes |-> req[r].writes + 1])]
       ELSE /\ auditLogs' = auditLogs
            /\ req' = Set(r, [pc |-> "d_catch", error |-> DbError])
  /\ UNCHANGED <<project, codeGenerations, deployments, started, refused>>
  /\ UNCHANGED NotFlow

\* Lines 359-371: catch (deployError): deployment.update FAILED.
DeployCatchDeployment(r) ==
  /\ req[r].pc = "d_catch"
  /\ \E applied \in BOOLEAN :
       LET u == DeploymentUpdate(deployments[req[r].id], project,
                  [status |-> "FAILED", errorMessage |-> req[r].error,
                   completedAt |-> "now"])
           err == IF applied THEN u.error ELSE DbError
       IN IF err = NoError
          THEN /\ deployments' = [deployments EXCEPT ![req[r].id] = u.row]
               /\ project' = u.project
               /\ req' = Set(r, [pc |-> "d_catchProject",
                                 writes |-> req[r].writes + 1,
                                 wroteTerminal |-> req[r].wroteTerminal \/ u.updated,
                                 wroteFailed |-> u.updated])
          ELSE /\ UNCHANGED <<deployments, project>>
               /\ req' = [req EXCEPT ![r] = DeployFailed(r, err)]
  /\ UNCHANGED <<codeGenerations, auditLogs, started, refused>>
  /\ UNCHANGED NotFlow

\* Lines 373-376: project.update FAILED.
DeployCatchProject(r) ==
  /\ req[r].pc = "d_catchProject"
  /\ \E applied \in BOOLEAN :
       LET u == ProjectUpdate(project, [status |-> "FAILED"])
           err == IF applied THEN u.error ELSE DbError
       IN IF err = NoError
          THEN /\ project' = u.row
               /\ req' = Set(r, [pc |-> "d_catchAudit",
                                 writes |-> req[r].writes + 1,
                                 wroteTerminal |-> TRUE, wroteFailed |-> TRUE])
          ELSE /\ project' = project
               /\ req' = [req EXCEPT ![r] = DeployFailed(r, err)]
  /\ UNCHANGED <<codeGenerations, deployments, auditLogs, started, refused>>
  /\ UNCHANGED NotFlow

\* Lines 378-386: audit.error, then throw deployError to the outer catch.
DeployCatchAudit(r) ==
  /\ req[r].pc = "d_catchAudit"
  /\ \E applied \in BOOLEAN :
       IF applied
       THEN /\ auditLogs' = Append(auditLogs,
                 audit_error(req[r].session.id, "Deployment", "DEPLOY",
                             req[r].error, req[r].id))
            /\ req' = [req EXCEPT ![r] =
                 Merge(DeployFailed(r, req[r].error),
                       [writes |-> req[r].writes + 1])]
       ELSE /\ auditLogs' = auditLogs
            /\ req' = [req EXCEPT ![r] = DeployFailed(r, DbError)]
  /\ UNCHANGED <<project, codeGenerations, deployments, started, refused>>
  /\ UNCHANGED NotFlow

(***************************************************************************)
(* Spec: the request flows on one Project, requests overlapping freely.    *)
(* The inputs and the outcomes of the external calls are drawn from the    *)
(* sets below.                                                             *)
(***************************************************************************)
Environments == {Tokens, {"VERCEL_TOKEN"}}
FlowSessions ==
  {NoSession, [id |-> "u1", role |-> "USER"], [id |-> "u2", role |-> "USER"]}
LLMErrors == {UpstreamError("llm", "generate"), ParseError}
FlowProviders == {"vercel", "netlify"}
FlowGitHubOracle ==
  {[fail |-> "none", exists |-> FALSE], [fail |-> "pushFiles", exists |-> TRUE]}
FlowVercelOracle ==
  {[fail |-> "none", found |-> TRUE, wait |-> w] : w \in {"READY", "TIMEOUT"}}

Init ==
  /\ FlowIdle
  /\ env \in Environments
  /\ lastUpdate = NoUpdate
  /\ pipe = IdlePipe
  /\ llm = IdleLLM
  /\ push = IdlePush
  /\ gdpr = IdleGdpr
  /\ parse = IdleParse
  /\ authz = IdleAuthz

Next ==
  \/ \E session \in FlowSessions : GenerateBegin(session)
  \/ \E session \in FlowSessions, provider \in FlowProviders :
       DeployBegin(session, provider, FALSE)
  \/ \E r \in Requests :
       \/ GenerateSetGenerating(r)
       \/ GenerateCreate(r)
       \/ \E files \in FileLists : GenerateCallLLM(r, files, NoError)
       \/ \E error \in LLMErrors : GenerateCallLLM(r, NULL, error)
       \/ GenerateComplete(r)
       \/ GenerateUpdateProject(r)
       \/ GenerateAudit(r)
       \/ GenerateCatchCodeGen(r)
       \/ GenerateCatchProject(r)
       \/ GenerateCatchAudit(r)
       \/ DeploySetDeploying(r)
       \/ DeployCreate(r)
       \/ DeployBuilding(r)
       \/ \E go \in FlowGitHubOracle, vo \in FlowVercelOracle :
            DeployPipeline(r, go, vo)
       \/ DeploySuccess(r)
       \/ DeployUpdateProject(r)
       \/ DeployAudit(r)
       \/ DeployCatchDeployment(r)
       \/ DeployCatchProject(r)
       \/ DeployCatchAudit(r)

Spec == Init /\ [][Next]_vars

(***************************************************************************)
(* Properties of the request flows.                                        *)
(***************************************************************************)
Answered(r) == req[r].pc = "done"

\* The sub-entity row a request created.
SubEntity(r) ==
  IF req[r].kind = "generate" THEN codeGenerations[req[r].id]
  ELSE deployments[req[r].id]

SubEntityName(r) ==
  IF req[r].kind = "generate" THEN "CodeGeneration" ELSE "Deployment"

\* C1: every request that has written Project status GENERATING or
\* DEPLOYING has, by the time it answers, written a terminal Project status
\* (GENERATED, DEPLOYED or FAILED), whichever step threw.  A request writes
\* nothing after it has answered, so "eventually" is "by the answer".
C1_TerminalWritten ==
  \A r \in Requests :
    (Answered(r) /\ req[r].wroteInProgress) => req[r].wroteTerminal

\* C4: while the Project is not GENERATED or has no generated files, no
\* step accepts a deployment request (so no Deployment is created and no
\* adapter is called for it), and the step that refuses one leaves the
\* Project, the Deployments and the requests in flight as they were.
C4_RefusedBeforeAnyEffect ==
  [][(project.status /= "GENERATED" \/ project.generatedFiles = NULL)
       => /\ \A r \in Requests :
               req'[r].kind = "deploy" => req[r].kind = "deploy"
          /\ (refused' /= refused /\ refused'.kind = "deploy")
               => UNCHANGED <<project, deployments, codeGenerations,
                              auditLogs, req>>]_vars

\* A deployment was refused for want of generated code, and the Project has
\* files but is FAILED.
C4_Witness ==
  /\ refused.kind = "deploy"
  /\ refused.response.status = 400
  /\ refused.response.error =
       <<"Project must have generated code before deployment">>
  /\ project.status = "FAILED"
  /\ project.generatedFiles /= NULL
  /\ deployments = << >>

\* C7: every request that answers with a failure has its sub-entity FAILED
\* with the error message, an ERROR audit entry for it, has set the Project
\* to FAILED, and answers with the message of the error that failed it.
C7_FailureRecordedTwice ==
  \A r \in Requests :
    (Answered(r) /\ req[r].response.status = 500)
      => /\ req[r].id /= 0
         /\ SubEntity(r).status = "FAILED"
         /\ SubEntity(r).errorMessage = req[r].response.message
         /\ \E i \in 1..Len(auditLogs) :
              /\ auditLogs[i].severity = "ERROR"
              /\ auditLogs[i].resource = SubEntityName(r)
              /\ auditLogs[i].subject = req[r].id
         /\ req[r].wroteFailed
         /\ req[r].response.message = req[r].error

\* The step in which a request of the kind answers.
Ends(r, kind) ==
  req[r].kind = kind /\ ~Answered(r) /\ req'[r].pc = "done"

CreateEntries(logs, resource, id) ==
  {i \in 1..Len(logs) :
     /\ logs[i].action = "CREATE"
     /\ logs[i].resource = resource
     /\ logs[i].resourceId = id
     /\ logs[i].category = "data_access"
     /\ logs[i].severity = "INFO"}

\* The end state of a generation, in the state the request answers in.
GeneratedEndState(r) ==
  /\ codeGenerations'[req[r].id].status = "COMPLETED"
  /\ codeGenerations'[req[r].id].output = req[r].files
  /\ project'.status = "GENERATED"
  /\ project'.generatedFiles = req[r].files
  /\ project'.version = req[r].project.version + 1
  /\ Cardinality(CreateEntries(auditLogs', "CodeGeneration", req[r].id)) = 1

DeployedEndState(r) ==
  /\ req[r].project.status = "GENERATED"
  /\ req[r].wroteInProgress
  /\ deployments'[req[r].id].trail = <<"PENDING", "BUILDING", "SUCCESS">>
  /\ deployments'[req[r].id].status = "SUCCESS"
  /\ deployments'[req[r].id].url = req[r].result.deploymentUrl
  /\ deployments'[req[r].id].url /= NULL
  /\ deployments'[req[r].id].completedAt /= NULL
  /\ project'.status = "DEPLOYED"
  /\ project'.deploymentUrl = req[r].result.deploymentUrl
  /\ project'.githubRepo = req[r].result.githubUrl
  /\ project'.githubRepo /= NULL
  /\ project'.lastDeployedAt /= NULL

\* deploymentUrl is non-null only if a Deployment has reached SUCCESS.
UrlOnlyAfterSuccess ==
  project.deploymentUrl /= NULL
    => \E i \in 1..Len(deployments) :
         \E k \in 1..Len(deployments[i].trail) :
           deployments[i].trail[k] = "SUCCESS"

C10_TimeoutEndsFailed ==
  \A r \in Requests :
    (Answered(r) /\ req[r].kind = "deploy"
       /\ req[r].result.error = WaitError("TIMEOUT"))
      => /\ deployments[req[r].id].status = "FAILED"
         /\ req[r].wroteFailed

(***************************************************************************)
(* Provider dispatch of the deployment pipeline.                           *)
(***************************************************************************)
NotImplemented ==
  {<<"Netlify deployment not yet implemented">>,
   <<"GitHub Pages deployment not yet implemented">>}

\* C11: a deployment through the pipeline whose provider is netlify or
\* github-pages returns a 'not yet implemented' error, and no source-host
\* call and no deploy-target call has been made for it.
C11_NotImplementedWithoutIO ==
  (pipe.pc = "returned" /\ pipe.provider \in {"netlify", "github-pages"})
    => /\ pipe.result.error \in NotImplemented
       /\ Adapters(pipe.result.calls) = {}

(***************************************************************************)
(* Sub-entity lifecycle.                                                   *)
(***************************************************************************)
TerminalGenerationStatus == {"COMPLETED", "FAILED"}
TerminalDeploymentStatus == {"SUCCESS", "FAILED", "CANCELLED"}

\* C12: no step changes the status, output or error message of a
\* CodeGeneration that is COMPLETED or FAILED, or the status or error
\* message of a Deployment that is SUCCESS, FAILED or CANCELLED.
C12_TerminalIsFinal ==
  [][/\ \A i \in 1..Len(codeGenerations) :
          codeGenerations[i].status \in TerminalGenerationStatus
            => /\ codeGenerations'[i].status = codeGenerations[i].status
               /\ codeGenerations'[i].output = codeGenerations[i].output
               /\ codeGenerations'[i].errorMessage
                    = codeGenerations[i].errorMessage
     /\ \A i \in 1..Len(deployments) :
          deployments[i].status \in TerminalDeploymentStatus
            => /\ deployments'[i].status = deployments[i].status
               /\ deployments'[i].errorMessage = deployments[i].errorMessage]_vars

(***************************************************************************)
(* SpecConcurrent: the request flows on a Project that is either new or    *)
(* already GENERATED by an earlier generation, so that two generations     *)
(* and two deployments can overlap.                                        *)
(***************************************************************************)
\* The rows an earlier successful generation by the owner has left.
GeneratedProject ==
  Merge(NewProject,
        [status |-> "GENERATED", generatedFiles |-> "filesA", version |-> 2])

CompletedCodeGeneration ==
  [status |-> "COMPLETED", output |-> "filesA", errorMessage |-> NoError,
   completedAt |-> CompletionTime(<< >>),
   trail |-> <<"PROCESSING", "COMPLETED">>]

InitConcurrent ==
  /\ \/ /\ project = NewProject
        /\ codeGenerations = << >>
        /\ auditLogs = << >>
     \/ /\ project = GeneratedProject
        /\ codeGenerations = <<CompletedCodeGeneration>>
        /\ auditLogs = <<audit_create(OwnerId, "CodeGeneration", 1)>>
  /\ deployments = << >>
  /\ req = [r \in Requests |-> IdleRequest]
  /\ started = 0
  /\ refused = NoRefusal
  /\ env = Tokens
  /\ lastUpdate = NoUpdate
  /\ pipe = IdlePipe
  /\ llm = IdleLLM
  /\ push = IdlePush
  /\ gdpr = IdleGdpr
  /\ parse = IdleParse
  /\ authz = IdleAuthz

SpecConcurrent == InitConcurrent /\ [][Next]_vars

Owner == [id |-> OwnerId, role |-> "USER"]

\* The Project status writes of the handlers: the position of the write,
\* the status written, and the position after an applied write.
StatusWrites ==
  {<<"g_setGenerating", "GENERATING", "g_create">>,
   <<"g_project", "GENERATED", "g_audit">>,
   <<"g_catchProject", "FAILED", "g_catchAudit">>,
   <<"d_setDeploying", "DEPLOYING", "d_create">>,
   <<"d_project", "DEPLOYED", "d_audit">>,
   <<"d_catchProject", "FAILED", "d_catchAudit">>}

\* The error a write left in the request: in its answer, or for the catch.
WriteError(r) ==
  IF req'[r].pc = "done" THEN req'[r].response.message ELSE req'[r].error

\* C13: requests on one Project are not mutually excluded.  A generation
\* request by the owner is accepted whatever is in flight, and so is a
\* deployment request on a GENERATED Project with files; each applied
\* status write leaves the Project in the status written (the last writer
\* wins); and a write is refused by the datastore only for a transition
\* that the table does not list, judged on the status at the time of the
\* write.
C13_NoMutualExclusion ==
  /\ [](started < MaxRequests
          => /\ ENABLED (GenerateBegin(Owner) /\ started' = started + 1)
             /\ (~DeployRefused(project)
                   => ENABLED (DeployBegin(Owner, "vercel", FALSE)
                                 /\ started' = started + 1)))
  /\ [][\A r \in Requests : \A w \in StatusWrites :
          (req[r].pc = w[1] /\ req'[r].pc /= w[1])
            => LET listed == \/ project.status = w[2]
                             \/ w[2] \in valid_transitions[project.status]
               IN IF req'[r].pc = w[3]
                  THEN listed /\ project'.status = w[2]
                  ELSE /\ project' = project
                       /\ \/ WriteError(r) = DbError
                          \/ /\ ~listed
                             /\ WriteError(r)
                                  = InvalidTransition(project.status, w[2])]_vars

\* Two deployments that both read the Project in GENERATED are in flight
\* and both have written DEPLOYING.
C13_Witness ==
  \E r1, r2 \in Requests :
    /\ r1 /= r2
    /\ req[r1].kind = "deploy" /\ req[r2].kind = "deploy"
    /\ InFlight(r1) /\ InFlight(r2)
    /\ req[r1].project.status = "GENERATED"
    /\ req[r2].project.status = "GENERATED"
    /\ req[r1].wroteInProgress /\ req[r2].wroteInProgress

(***************************************************************************)
(* Missing credentials in the request flows.                               *)
(***************************************************************************)
\* The pipeline result of a request that found the source-host token
\* missing (GitHubService's constructor threw).
SourceHostTokenMissing(r) ==
  req[r].result.error
    = <<"GitHub setup failed: ">> \o <<"GitHub token not configured">>

\* C14: a request that meets a missing credential has by then made no
\* datastore write and no external call, and answers with a 4xx status that
\* carries the credential's message as it was raised.
C14_MissingCredentialBeforeIO ==
  \A r \in Requests :
    (Answered(r) /\ SourceHostTokenMissing(r))
      => /\ req[r].writes = 0
         /\ req[r].calls = {}
         /\ req[r].response.status \in 400..499
         /\ req[r].response.message = <<"GitHub token not configured">>

(***************************************************************************)
(* SpecLLM: the LLM provider factory (src/lib/ai/index.ts) under changes   *)
(* of the environment.  llm.last is the call that has just returned; any   *)
(* other step clears it.                                                   *)
(***************************************************************************)
LLMKeys == {"ANTHROPIC_API_KEY", "OPENAI_API_KEY", "GOOGLE_AI_API_KEY"}
KeyOf ==
  [anthropic |-> "ANTHROPIC_API_KEY", openai |-> "OPENAI_API_KEY",
   gemini |-> "GOOGLE_AI_API_KEY"]
TokenOf(p) ==
  CASE p = "vercel" -> "VERCEL_TOKEN"
    [] p = "netlify" -> "NETLIFY_TOKEN"
    [] p = "github-pages" -> "GITHUB_TOKEN"

\* Values of DEFAULT_LLM_PROVIDER: unset, a provider, a name of no provider.
DefaultValues == {NULL, "openai", "bogus"}
LLMOptions == LLMProviders \cup {NULL}

\* new AnthropicProvider() and its like: the client exists iff the key is
\* set when the constructor runs.
NewProvider(p, e) == [created |-> TRUE, client |-> KeyOf[p] \in e]

\* isConfigured(): !!this.client
isConfigured(instance) == instance.client

\* getLLMProvider(provider): [error, instances, name, provider]
getLLMProvider(instances, e, p) ==
  IF p \notin LLMProviders
  THEN [error |-> <<"Unknown LLM provider: ", p>>, instances |-> instances,
        name |-> p, provider |-> NoInstance]
  ELSE LET instance == IF instances[p].created THEN instances[p]
                       ELSE NewProvider(p, e)
       IN [error |-> NoError, instances |-> [instances EXCEPT ![p] = instance],
           name |-> p, provider |-> instance]

getDefaultProvider(instances, e, d) ==
  getLLMProvider(instances, e, IF d /= NULL THEN d ELSE "anthropic")

\* Mutant: the OpenAI key lists gemini as well.
getConfiguredLLMProviders_Duplicate(e) ==
  (IF "ANTHROPIC_API_KEY" \in e THEN <<"anthropic">> ELSE << >>)
  \o (IF "OPENAI_API_KEY" \in e THEN <<"openai", "gemini">> ELSE << >>)
  \o (IF "GOOGLE_AI_API_KEY" \in e THEN <<"gemini">> ELSE << >>)

\* getConfiguredProviders of the LLM family.
getConfiguredLLMProviders(e) ==
  (IF "ANTHROPIC_API_KEY" \in e THEN <<"anthropic">> ELSE << >>)
  \o (IF "OPENAI_API_KEY" \in e THEN <<"openai">> ELSE << >>)
  \o (IF "GOOGLE_AI_API_KEY" \in e THEN <<"gemini">> ELSE << >>)

\* generate and generateChat: select, check isConfigured, call the backend
\* method once.  ok is whether the backend call succeeds.
GenerateWith(method, instances, e, d, option, ok) ==
  LET g == IF option /= NULL THEN getLLMProvider(instances, e, option)
           ELSE getDefaultProvider(instances, e, d)
  IN IF g.error /= NoError
     THEN [instances |-> g.instances, selected |-> g.name,
           configured |-> FALSE, backend |-> << >>, error |-> g.error]
     ELSE IF ~isConfigured(g.provider)
     THEN [instances |-> g.instances, selected |-> g.name,
           configured |-> FALSE, backend |-> << >>,
           error |-> <<"Provider % is not configured", g.name>>]
     ELSE [instances |-> g.instances, selected |-> g.name,
           configured |-> TRUE, backend |-> <<g.name>>,
           error |-> IF ok THEN NoError ELSE UpstreamError(g.name, method)]

\* Mutant: when the backend call fails, another provider whose key is set
\* is tried.
generate_Fallback(instances, e, d, option, ok) ==
  LET r == GenerateWith("generate", instances, e, d, option, ok)
      others == {p \in LLMProviders : p /= r.selected /\ KeyOf[p] \in e}
  IN IF r.backend /= << >> /\ ~ok /\ others /= {}
     THEN [r EXCEPT !.backend = @ \o <<CHOOSE p \in others : TRUE>>,
                    !.error = NoError]
     ELSE r

generate(instances, e, d, option, ok) ==
  GenerateWith("generate", instances, e, d, option, ok)

generateChat(instances, e, d, option, ok) ==
  GenerateWith("generateChat", instances, e, d, option, ok)

NotLLM ==
  <<project, codeGenerations, deployments, auditLogs, req, started, refused,
    lastUpdate, pipe, push, gdpr, parse, authz>>

InitLLM ==
  /\ FlowIdle
  /\ env \in SUBSET (LLMKeys \cup Tokens)
  /\ lastUpdate = NoUpdate
  /\ pipe = IdlePipe
  /\ llm = IdleLLM
  /\ push = IdlePush
  /\ gdpr = IdleGdpr
  /\ parse = IdleParse
  /\ authz = IdleAuthz

\* process.env[k] = value
SetEnv(k) ==
  /\ k \notin env
  /\ env' = env \cup {k}
  /\ llm' = [llm EXCEPT !.last = NoCall]
  /\ UNCHANGED NotLLM

\* delete process.env[k]
DeleteEnv(k) ==
  /\ k \in env
  /\ env' = env \ {k}
  /\ llm' = [llm EXCEPT !.last = NoCall]
  /\ UNCHANGED NotLLM

\* process.env.DEFAULT_LLM_PROVIDER = d, or its deletion
SetDefaultProvider(d) ==
  /\ d /= llm.defaultProvider
  /\ llm' = [llm EXCEPT !.defaultProvider = d, !.last = NoCall]
  /\ UNCHANGED env
  /\ UNCHANGED NotLLM

resetProviders ==
  /\ llm' = [llm EXCEPT !.instances = [p \in LLMProviders |-> NoInstance],
                        !.last = NoCall]
  /\ UNCHANGED env
  /\ UNCHANGED NotLLM

CallGetLLMProvider(p) ==
  LET g == getLLMProvider(llm.instances, env, p)
  IN /\ llm' = [llm EXCEPT
                  !.instances = g.instances,
                  !.last = [NoCall EXCEPT !.fn = "getLLMProvider",
                                          !.option = p, !.selected = g.name,
                                          !.configured = isConfigured(g.provider),
                                          !.error = g.error]]
     /\ UNCHANGED env
     /\ UNCHANGED NotLLM

CallGetConfiguredProviders ==
  /\ llm' = [llm EXCEPT
               !.last = [NoCall EXCEPT !.fn = "ai.getConfiguredProviders",
                                       !.listed = getConfiguredLLMProviders(env)]]
  /\ UNCHANGED env
  /\ UNCHANGED NotLLM

CallDeployGetConfiguredProviders ==
  /\ llm' = [llm EXCEPT
               !.last = [NoCall EXCEPT !.fn = "deploy.getConfiguredProviders",
                                       !.listed = getConfiguredProvidersList(env)]]
  /\ UNCHANGED env
  /\ UNCHANGED NotLLM

Returned(fn, option, g) ==
  [llm EXCEPT
     !.instances = g.instances,
     !.last = [NoCall EXCEPT !.fn = fn, !.option = option,
                             !.selected = g.selected,
                             !.configured = g.configured,
                             !.backend = g.backend, !.error = g.error]]

CallGenerate(option, ok) ==
  /\ llm' = Returned("generate", option,
                     generate(llm.instances, env, llm.defaultProvider,
                              option, ok))
  /\ UNCHANGED env
  /\ UNCHANGED NotLLM

CallGenerateChat(option, ok) ==
  /\ llm' = Returned("generateChat", option,
                     generateChat(llm.instances, env, llm.defaultProvider,
                                  option, ok))
  /\ UNCHANGED env
  /\ UNCHANGED NotLLM

NextLLM ==
  \/ \E k \in LLMKeys \cup Tokens : SetEnv(k)
  \/ \E k \in LLMKeys \cup Tokens : DeleteEnv(k)
  \/ \E d \in DefaultValues : SetDefaultProvider(d)
  \/ resetProviders
  \/ \E p \in LLMProviders : CallGetLLMProvider(p)
  \/ CallGetConfiguredProviders
  \/ CallDeployGetConfiguredProviders
  \/ \E option \in LLMOptions, ok \in BOOLEAN : CallGenerate(option, ok)
  \/ \E option \in LLMOptions, ok \in BOOLEAN : CallGenerateChat(option, ok)

SpecLLM == InitLLM /\ [][NextLLM]_vars

Generated == llm.last.fn \in {"generate", "generateChat"}

\* C15: generate and generateChat, called for a provider (named or default)
\* whose credential is not set, fail with 'Provider <name> is not
\* configured' and invoke no backend method.
C15_NotConfiguredBeforeNetwork ==
  (Generated /\ llm.last.selected \in LLMProviders
     /\ KeyOf[llm.last.selected] \notin env)
    => /\ llm.last.error
            = <<"Provider % is not configured", llm.last.selected>>
       /\ llm.last.backend = << >>

Lists(list, p) == \E i \in 1..Len(list) : list[i] = p

NoDuplicates(list) ==
  \A i, j \in 1..Len(list) : i /= j => list[i] /= list[j]

\* C16: the instance getLLMProvider returns answers isConfigured() true
\* iff the provider's credential is in the environment at that moment, and
\* a provider is listed by getConfiguredProviders() iff the factory's
\* instance of it answers isConfigured() true.
C16_IsConfiguredTracksEnvironment ==
  /\ llm.last.fn = "getLLMProvider"
       => (llm.last.configured <=> KeyOf[llm.last.option] \in env)
  /\ \A p \in LLMProviders :
       llm.instances[p].created
         => (Lists(getConfiguredLLMProviders(env), p)
               <=> isConfigured(llm.instances[p]))

\* C17: getConfiguredProviders of the LLM family lists exactly the
\* providers whose key is set, and that of the deploy family exactly the
\* providers whose token is set; neither lists a provider twice, and
\* neither calls a backend.
C17_ConfiguredProvidersExact ==
  /\ llm.last.fn = "ai.getConfiguredProviders"
       => /\ \A p \in LLMProviders :
               Lists(llm.last.listed, p) <=> KeyOf[p] \in env
          /\ \A i \in 1..Len(llm.last.listed) :
               llm.last.listed[i] \in LLMProviders
          /\ NoDuplicates(llm.last.listed)
          /\ (env \cap LLMKeys = {}) => llm.last.listed = << >>
          /\ llm.last.backend = << >>
  /\ llm.last.fn = "deploy.getConfiguredProviders"
       => /\ \A p \in DeploymentProvider :
               Lists(llm.last.listed, p) <=> TokenOf(p) \in env
          /\ \A i \in 1..Len(llm.last.listed) :
               llm.last.listed[i] \in DeploymentProvider
          /\ NoDuplicates(llm.last.listed)
          /\ (env \cap Tokens = {}) => llm.last.listed = << >>
          /\ llm.last.backend = << >>
          /\ getConfiguredProviders(env)
               = {llm.last.listed[i] : i \in 1..Len(llm.last.listed)}

\* The LLM family was asked with two of the three keys set.
C17_Witness ==
  /\ llm.last.fn = "ai.getConfiguredProviders"
  /\ env \cap LLMKeys = {"OPENAI_API_KEY", "GOOGLE_AI_API_KEY"}
  /\ llm.last.listed = <<"openai", "gemini">>

\* The provider a call selects: the option, else DEFAULT_LLM_PROVIDER, else
\* anthropic.
Selection ==
  IF llm.last.option /= NULL THEN llm.last.option
  ELSE IF llm.defaultProvider /= NULL THEN llm.defaultProvider
  ELSE "anthropic"

\* C18: a generate or generateChat call selects the provider named in the
\* options, else the default, else anthropic; it calls at most one backend,
\* that of the selected provider; and when that call fails the caller gets
\* that failure.
C18_NoFallback ==
  Generated
    => /\ llm.last.selected = Selection
       /\ Len(llm.last.backend) <= 1
       /\ \A i \in 1..Len(llm.last.backend) : llm.last.backend[i] = Selection
       /\ \/ llm.last.error = NoError
          \/ llm.last.error = <<"Unknown LLM provider: ", Selection>>
          \/ llm.last.error = <<"Provider % is not configured", Selection>>
               /\ llm.last.backend = << >>
          \/ llm.last.error = UpstreamError(Selection, llm.last.fn)
               /\ llm.last.backend = <<Selection>>

\* The default provider's backend failed while another provider's key was
\* set: the caller got the default provider's failure.
C18_Witness ==
  /\ llm.last.fn = "generate"
  /\ llm.last.option = NULL
  /\ llm.defaultProvider = "openai"
  /\ "ANTHROPIC_API_KEY" \in env
  /\ llm.last.backend = <<"openai">>
  /\ llm.last.error = UpstreamError("openai", "generate")

(***************************************************************************)
(* SpecPush: invocations of GitHubService.pushFiles, overlapping, on one   *)
(* file system.  push.now is Date.now(); push.dirs are the temp            *)
(* directories that exist.  Each awaited operation is a step, and each may *)
(* fail; an operation inside a directory that does not exist fails.        *)
(***************************************************************************)
MaxTime == 2

\* join(tmpdir(), `project-scaffolder-${Date.now()}`)
TempDirName(t) == <<"project-scaffolder-", t>>

GitError(step) == UpstreamError("git", step)

NotPush ==
  <<project, codeGenerations, deployments, auditLogs, req, env, started,
    refused, lastUpdate, pipe, llm, gdpr, parse, authz>>

InitPush ==
  /\ FlowIdle
  /\ env = {"GITHUB_TOKEN"}
  /\ lastUpdate = NoUpdate
  /\ pipe = IdlePipe
  /\ llm = IdleLLM
  /\ push = IdlePush
  /\ gdpr = IdleGdpr
  /\ parse = IdleParse
  /\ authz = IdleAuthz

\* The position and fields of invocation i after a step.
Moved(i, fields) == [push.inv EXCEPT ![i] = Merge(@, fields)]

\* The clock moves on by a millisecond.
Tick ==
  /\ push.now < MaxTime
  /\ push' = [push EXCEPT !.now = @ + 1]
  /\ UNCHANGED NotPush

\* Line 285: the directory name is taken from the clock.
PushFilesStart(i) ==
  /\ push.inv[i].pc = "idle"
  /\ push' = [push EXCEPT
                !.inv = Moved(i, [pc |-> "mkdir",
                                  tempDir |-> TempDirName(push.now)])]
  /\ UNCHANGED NotPush

\* Line 288: mkdir(tempDir, { recursive: true })
PushFilesMkdir(i, ok) ==
  /\ push.inv[i].pc = "mkdir"
  /\ IF ok
     THEN push' = [push EXCEPT !.dirs = @ \cup {push.inv[i].tempDir},
                               !.inv = Moved(i, [pc |-> "init"])]
     ELSE push' = [push EXCEPT
                     !.inv = Moved(i, [pc |-> "finally",
                                       error |-> GitError("mkdir")])]
  /\ UNCHANGED NotPush

\* The outcome of an operation that works inside tempDir and leaves the set
\* of directories as it is: on to the next step, or to the finally block
\* with the error thrown.
InTempDir(i, step, next, ok) ==
  IF ok /\ push.inv[i].tempDir \in push.dirs
  THEN [push EXCEPT !.inv = Moved(i, [pc |-> next])]
  ELSE [push EXCEPT
          !.inv = Moved(i, [pc |-> "finally", error |-> GitError(step)])]

\* Lines 291-294: git init and the two addConfig.
PushFilesInit(i, ok) ==
  /\ push.inv[i].pc = "init"
  /\ push' = InTempDir(i, "init", "write", ok)
  /\ UNCHANGED NotPush

\* Lines 297-305: mkdir(dirPath, { recursive: true }) and writeFile for
\* each file; the mkdir of a nested path creates tempDir again if it is
\* gone.
PushFilesWrite(i, ok) ==
  /\ push.inv[i].pc = "write"
  /\ IF ok
     THEN push' = [push EXCEPT !.dirs = @ \cup {push.inv[i].tempDir},
                               !.inv = Moved(i, [pc |-> "commit"])]
     ELSE push' = [push EXCEPT
                     !.inv = Moved(i, [pc |-> "finally",
                                       error |-> GitError("write")])]
  /\ UNCHANGED NotPush

\* Lines 308-309: git add and git commit.
PushFilesCommit(i, ok) ==
  /\ push.inv[i].pc = "commit"
  /\ push' = InTempDir(i, "commit", "addRemote", ok)
  /\ UNCHANGED NotPush

\* Lines 312-314: git remote add origin.
PushFilesAddRemote(i, ok) ==
  /\ push.inv[i].pc = "addRemote"
  /\ push' = InTempDir(i, "addRemote", "push", ok)
  /\ UNCHANGED NotPush

\* Line 318: the plain push; its failure is caught.  attempts is the
\* history of the pushes made and whether each was accepted.
PushFilesPush(i, ok) ==
  /\ push.inv[i].pc = "push"
  /\ LET accepted == ok /\ push.inv[i].tempDir \in push.dirs
     IN  push' = [push EXCEPT
                    !.inv = Moved(i,
                      [pc |-> IF accepted THEN "log" ELSE "forcePush",
                       attempts |-> Append(push.inv[i].attempts,
                                           <<"push", accepted>>)])]
  /\ UNCHANGED NotPush

\* A forced push that is tried again when it fails.
PushFilesForcePush_Retry(i, ok) ==
  /\ push.inv[i].pc = "forcePush"
  /\ LET accepted == ok /\ push.inv[i].tempDir \in push.dirs
     IN  push' = [push EXCEPT
                    !.inv = Moved(i,
                      [pc |-> IF accepted THEN "log" ELSE "forcePush",
                       attempts |-> Append(push.inv[i].attempts,
                                           <<"force", accepted>>)])]
  /\ UNCHANGED NotPush

\* Line 321: the forced push, in the catch of the plain one; its error
\* leaves the try block.
PushFilesForcePush(i, ok) ==
  /\ push.inv[i].pc = "forcePush"
  /\ LET accepted == ok /\ push.inv[i].tempDir \in push.dirs
     IN  push' = [push EXCEPT
                    !.inv = Moved(i,
                      [pc |-> IF accepted THEN "log" ELSE "finally",
                       error |-> IF accepted THEN NoError
                                 ELSE GitError("forcePush"),
                       attempts |-> Append(push.inv[i].attempts,
                                           <<"force", accepted>>)])]
  /\ UNCHANGED NotPush

\* Lines 325-331: git log, and the value to return.
PushFilesLog(i, ok) ==
  /\ push.inv[i].pc = "log"
  /\ IF ok /\ push.inv[i].tempDir \in push.dirs
     THEN push' = [push EXCEPT
                     !.inv = Moved(i, [pc |-> "finally", result |-> RepoUrl])]
     ELSE push' = [push EXCEPT
                     !.inv = Moved(i, [pc |-> "finally",
                                       error |-> GitError("log")])]
  /\ UNCHANGED NotPush

\* Line 334: rm(tempDir, { recursive: true, force: true })
PushFilesCleanup(i) ==
  /\ push.inv[i].pc = "finally"
  /\ push' = [push EXCEPT !.dirs = @ \ {push.inv[i].tempDir},
                          !.inv = Moved(i, [pc |-> "settle"])]
  /\ UNCHANGED NotPush

\* The promise settles: the caller sees the value or the error.
PushFilesReturn(i) ==
  /\ push.inv[i].pc = "settle"
  /\ push' = [push EXCEPT !.inv = Moved(i, [pc |-> "done"])]
  /\ UNCHANGED NotPush

NextPush ==
  \/ Tick
  \/ \E i \in Invocations :
       \/ PushFilesStart(i)
       \/ \E ok \in BOOLEAN : PushFilesMkdir(i, ok)
       \/ \E ok \in BOOLEAN : PushFilesInit(i, ok)
       \/ \E ok \in BOOLEAN : PushFilesWrite(i, ok)
       \/ \E ok \in BOOLEAN : PushFilesCommit(i, ok)
       \/ \E ok \in BOOLEAN : PushFilesAddRemote(i, ok)
       \/ \E ok \in BOOLEAN : PushFilesPush(i, ok)
       \/ \E ok \in BOOLEAN : PushFilesForcePush(i, ok)
       \/ \E ok \in BOOLEAN : PushFilesLog(i, ok)
       \/ PushFilesCleanup(i)
       \/ PushFilesReturn(i)

SpecPush == InitPush /\ [][NextPush]_vars

Running(i) == push.inv[i].pc \notin {"idle", "done"}

\* C19: when a pushFiles invocation returns or raises, whichever step
\* failed or none, its temporary directory does not exist.
C19_TempDirRemoved ==
  [][\A i \in Invocations :
       (push.inv[i].pc /= "done" /\ push'.inv[i].pc = "done")
         => push.inv[i].tempDir \notin push'.dirs]_vars

\* C20: two invocations that overlap in time have distinct temporary
\* directories.
C20_TempDirExclusive ==
  \A i, j \in Invocations :
    (i /= j /\ Running(i) /\ Running(j))
      => push.inv[i].tempDir /= push.inv[j].tempDir

\* The histories of pushes the code allows.
PushHistories ==
  {<< >>, <<<<"push", TRUE>>>>, <<<<"push", FALSE>>>>,
   <<<<"push", FALSE>>, <<"force", TRUE>>>>,
   <<<<"push", FALSE>>, <<"force", FALSE>>>>}

BothPushesFailed(i) ==
  push.inv[i].attempts = <<<<"push", FALSE>>, <<"force", FALSE>>>>

\* C26: pushFiles pushes at most twice: one plain push and, only if that is
\* rejected, exactly one forced push.  If the forced push fails too, its
\* error is the one raised and nothing is retried; if the plain push
\* succeeds there is no forced push.  A commit hash and URL are returned only
\* when one of the two pushes succeeded.
C26_AtMostTwoPushes ==
  \A i \in Invocations :
    /\ push.inv[i].attempts \in PushHistories
    /\ BothPushesFailed(i)
         => /\ push.inv[i].pc \in {"finally", "settle", "done"}
            /\ push.inv[i].error = GitError("forcePush")
            /\ push.inv[i].result = NULL
    /\ push.inv[i].result /= NULL
         => \E k \in DOMAIN push.inv[i].attempts : push.inv[i].attempts[k][2]

C26_Witness ==
  \E i \in Invocations :
    /\ push.inv[i].pc = "done"
    /\ BothPushesFailed(i)
    /\ push.inv[i].error = GitError("forcePush")

(***************************************************************************)
(* SpecGdpr: the compliance functions (src/lib/compliance/gdpr.ts), the    *)
(* audit helper they write through (src/lib/compliance/audit.ts), the      *)
(* foreign keys and trigger of the tables they touch, and the scheduled    *)
(* audit log cleanup.  gdpr.now counts days.  gdpr.created keeps every     *)
(* audit row as it was inserted; a row's id is its index there.            *)
(***************************************************************************)
MaxDay == 31
Month == 31
MaxUserActions == 2
MaxCleanups == 1
MaxConsents == 3
MaxDsr == 1

Purposes == {"marketing"}
AuditSeverity == {"DEBUG", "INFO", "WARNING", "ERROR", "CRITICAL"}
ProcessedBy == "admin"

\* users.id of the user with this email.
UserIdOf(email) == CASE email = "a@x" -> "ua" [] email = "b@x" -> "ub"

\* getRequestMetadata(): the caller's address and agent from the headers.
RequestMetadata == [ipAddress |-> "203.0.113.7", userAgent |-> "Mozilla"]
NoMetadata == [ipAddress |-> NULL, userAgent |-> NULL]

\* CONFIG.retention, in days.
Retention(severity) ==
  CASE severity = "DEBUG" -> 7
    [] severity = "INFO" -> 30
    [] severity = "WARNING" -> 90
    [] severity = "ERROR" -> 365
    [] severity = "CRITICAL" -> 730

\* getCutoffDate(days)
getCutoffDate(now, days) == now - days

\* INSERT INTO audit_logs: the table and the record of what was inserted.
InsertAuditLog(g, userId, action, resource, severity, meta) ==
  LET row == [id |-> Len(g.created) + 1, userId |-> userId,
              action |-> action, resource |-> resource,
              severity |-> severity, ipAddress |-> meta.ipAddress,
              userAgent |-> meta.userAgent, createdAt |-> g.now]
  IN  [g EXCEPT !.logs = Append(@, row), !.created = Append(@, row)]

\* audit.create / audit.update / audit.delete of audit.ts: createAuditLog
\* with the action's severity and the request's metadata.
gdpr_audit(g, userId, action, resource) ==
  InsertAuditLog(g, userId, action, resource,
                 IF action = "DELETE" THEN "WARNING" ELSE "INFO",
                 RequestMetadata)

\* trigger_consent_changed: AFTER INSERT OR UPDATE ON consent_records.
trigger_consent_changed(g, op, NEWROW) ==
  InsertAuditLog(g, NEWROW.userId,
                 CASE op = "INSERT" /\ NEWROW.granted -> "CONSENT_GRANTED"
                   [] op = "INSERT" /\ ~NEWROW.granted -> "CONSENT_DENIED"
                   [] op = "UPDATE" /\ NEWROW.revokedAt /= NULL
                        -> "CONSENT_REVOKED"
                   [] OTHER -> "CONSENT_UPDATED",
                 "ConsentRecord", "INFO", NoMetadata)

\* The number of audit rows ever inserted with this action and resource.
Inserted(g, action, resource) ==
  Cardinality({k \in DOMAIN g.created :
                 /\ g.created[k].action = action
                 /\ g.created[k].resource = resource})

NotGdpr ==
  <<project, codeGenerations, deployments, auditLogs, req, env, started,
    refused, lastUpdate, pipe, llm, push, parse, authz>>

InitGdpr ==
  /\ FlowIdle
  /\ env = Tokens
  /\ lastUpdate = NoUpdate
  /\ pipe = IdlePipe
  /\ llm = IdleLLM
  /\ push = IdlePush
  /\ gdpr = IdleGdpr
  /\ parse = IdleParse
  /\ authz = IdleAuthz

Called(g, fields) == [g EXCEPT !.last = Merge(NoGdprCall, fields)]

\* A month passes.
GdprTick ==
  /\ gdpr.now + Month <= MaxDay
  /\ gdpr' = Called([gdpr EXCEPT !.now = @ + Month], [fn |-> "tick"])
  /\ UNCHANGED NotGdpr

\* A signed-in user's request that is audited (audit.create with the
\* session's user id).
UserAction(email) ==
  /\ email \in gdpr.users
  /\ Inserted(gdpr, "CREATE", "Project") < MaxUserActions
  /\ gdpr' = Called(gdpr_audit(gdpr, UserIdOf(email), "CREATE", "Project"),
                    [fn |-> "userAction", email |-> email])
  /\ UNCHANGED NotGdpr

\* createDataSubjectRequest({email, requestType: DELETION})
createDataSubjectRequest(email) ==
  /\ Len(gdpr.requests) < MaxDsr
  /\ LET g == [gdpr EXCEPT
                 !.requests = Append(@, [email |-> email,
                                         status |-> "PENDING"])]
     IN  gdpr' = Called(gdpr_audit(g, NULL, "CREATE", "DataSubjectRequest"),
                        [fn |-> "createDataSubjectRequest",
                         email |-> email, success |-> TRUE])
  /\ UNCHANGED NotGdpr

\* verifyDataSubjectRequest(token), the token that of request r.
verifyDataSubjectRequest(r) ==
  /\ r \in 1..Len(gdpr.requests)
  /\ IF gdpr.requests[r].status /= "PENDING"
     THEN gdpr' = Called(gdpr, [fn |-> "verifyDataSubjectRequest",
                                email |-> gdpr.requests[r].email,
                                error |-> <<"Request already processed">>])
     ELSE gdpr' = Called([gdpr EXCEPT !.requests[r].status = "VERIFIED"],
                         [fn |-> "verifyDataSubjectRequest",
                          email |-> gdpr.requests[r].email,
                          success |-> TRUE])
  /\ UNCHANGED NotGdpr

\* DELETE FROM users WHERE id = ...: audit_logs.user_id and
\* consent_records.user_id are ON DELETE SET NULL.
DeleteUser(g, email) ==
  [g EXCEPT
     !.users = @ \ {email},
     !.logs = [k \in DOMAIN @ |->
                 IF @[k].userId = UserIdOf(email)
                 THEN [@[k] EXCEPT !.userId = NULL] ELSE @[k]],
     !.consents = [k \in DOMAIN @ |->
                     IF @[k].userId = UserIdOf(email)
                     THEN [@[k] EXCEPT !.userId = NULL] ELSE @[k]]]

\* db.auditLog.updateMany({ where: { user: { email } }, data: {userId: null,
\* ipAddress: null, userAgent: null} }): the rows whose user_id refers to a
\* users row with that email.
AnonymizeAuditLogs(g, email) ==
  [g EXCEPT
     !.logs = [k \in DOMAIN @ |->
                 IF \E u \in g.users : /\ @[k].userId = UserIdOf(u)
                                       /\ u = email
                 THEN [@[k] EXCEPT !.userId = NULL, !.ipAddress = NULL,
                                   !.userAgent = NULL]
                 ELSE @[k]]]

\* processDeletionRequest(requestId, processedBy).  upto is the number of
\* its datastore statements that succeed; the next one throws.
processDeletionRequest(r, upto) ==
  /\ r \in 1..Len(gdpr.requests)
  /\ LET request == gdpr.requests[r]
         email == request.email
         hadUser == email \in gdpr.users
         call == [fn |-> "processDeletionRequest", email |-> email,
                  hadUser |-> hadUser]
         g1 == [gdpr EXCEPT !.requests[r].status = "PROCESSING"]
         g2 == IF hadUser THEN DeleteUser(g1, email) ELSE g1
         g3 == IF hadUser
               THEN gdpr_audit(g2, ProcessedBy, "DELETE", "User") ELSE g2
         g4 == [g3 EXCEPT
                  !.consents = SelectSeq(@, LAMBDA c : c.email /= email)]
         g5 == AnonymizeAuditLogs(g4, email)
         g6 == [g5 EXCEPT !.requests[r].status = "COMPLETED"]
         thrown == call @@ [error |-> DbError]
     IN  IF request.status /= "VERIFIED"
         THEN gdpr' = Called(gdpr,
                 call @@ [error |-> <<"Invalid or unverified request">>])
         ELSE CASE upto = 0 -> gdpr' = Called(gdpr, thrown)
                [] upto = 1 -> gdpr' = Called(g1, thrown)
                [] upto = 2 -> gdpr' = Called(g2, thrown)
                [] upto = 3 -> gdpr' = Called(g3, thrown)
                [] upto = 4 -> gdpr' = Called(g4, thrown)
                [] upto = 5 -> gdpr' = Called(g5, thrown)
                [] OTHER -> gdpr' = Called(g6, call @@ [success |-> TRUE])
  /\ UNCHANGED NotGdpr

\* deleteLogsBySeverity(severity, cutoffDate, batchSize): the rows of that
\* severity older than the cutoff are deleted, if the datastore lets the
\* service role delete.
deleteLogsBySeverity(logs, severity, cutoffDate, ok) ==
  IF ok
  THEN SelectSeq(logs, LAMBDA row :
                   ~(row.severity = severity /\ row.createdAt < cutoffDate))
  ELSE logs

RECURSIVE CleanupAll(_, _, _, _)
CleanupAll(logs, severities, now, ok) ==
  IF severities = {} THEN logs
  ELSE LET sev == CHOOSE x \in severities : TRUE
       IN  CleanupAll(deleteLogsBySeverity(logs, sev,
                        getCutoffDate(now, Retention(sev)), ok),
                      severities \ {sev}, now, ok)

\* performCleanup(): every severity in turn, then the cleanup's own entry.
performCleanup(ok) ==
  /\ Inserted(gdpr, "AUDIT_CLEANUP", "AuditLog") < MaxCleanups
  /\ LET g == [gdpr EXCEPT
                 !.logs = CleanupAll(@, AuditSeverity, gdpr.now, ok)]
     IN  gdpr' = Called(InsertAuditLog(g, NULL, "AUDIT_CLEANUP", "AuditLog",
                                       "INFO", NoMetadata),
                        [fn |-> "performCleanup", success |-> TRUE])
  /\ UNCHANGED NotGdpr

\* The consent_records rows a findFirst with granted: true, revokedAt: null
\* matches.
ActiveConsents(consents, email, purpose) ==
  {k \in DOMAIN consents :
     /\ consents[k].email = email
     /\ consents[k].purpose = purpose
     /\ consents[k].granted
     /\ consents[k].revokedAt = NULL}

\* hasValidConsent(email, purpose)
hasValidConsent(consents, email, purpose) ==
  ActiveConsents(consents, email, purpose) /= {}

\* recordConsent({userId, email, purpose, granted, ...})
recordConsent(email, purpose, granted) ==
  /\ Len(gdpr.consents) < MaxConsents
  /\ LET userId == IF email \in gdpr.users THEN UserIdOf(email) ELSE NULL
         consent == [userId |-> userId, email |-> email, purpose |-> purpose,
                     granted |-> granted, revokedAt |-> NULL]
         g1 == [gdpr EXCEPT !.consents = Append(@, consent)]
         g2 == trigger_consent_changed(g1, "INSERT", consent)
     IN  gdpr' = Called(gdpr_audit(g2, userId, "CREATE", "ConsentRecord"),
                        [fn |-> "recordConsent", email |-> email,
                         purpose |-> purpose, success |-> TRUE])
  /\ UNCHANGED NotGdpr

\* revokeConsent({userId, email, purpose}): the most recent active record
\* (orderBy createdAt desc) gets its revokedAt.
revokeConsent(email, purpose) ==
  /\ LET active == ActiveConsents(gdpr.consents, email, purpose)
         userId == IF email \in gdpr.users THEN UserIdOf(email) ELSE NULL
         call == [fn |-> "revokeConsent", email |-> email,
                  purpose |-> purpose]
     IN  IF active = {}
         THEN gdpr' = Called(gdpr,
                 call @@ [error |-> <<"No active consent found">>])
         ELSE LET k == CHOOSE x \in active : \A y \in active : y <= x
                  g1 == [gdpr EXCEPT !.consents[k].revokedAt = "revoked"]
                  g2 == trigger_consent_changed(g1, "UPDATE", g1.consents[k])
              IN  gdpr' = Called(gdpr_audit(g2, userId, "UPDATE",
                                            "ConsentRecord"),
                                 call @@ [success |-> TRUE])
  /\ UNCHANGED NotGdpr

\* The data-subject requests, the audited user actions and the cleanup.
NextGdpr ==
  \/ GdprTick
  \/ \E email \in Emails : UserAction(email)
  \/ \E email \in Emails : createDataSubjectRequest(email)
  \/ \E r \in 1..MaxDsr : verifyDataSubjectRequest(r)
  \/ \E r \in 1..MaxDsr, upto \in 0..6 : processDeletionRequest(r, upto)
  \/ \E ok \in BOOLEAN : performCleanup(ok)

SpecGdpr == InitGdpr /\ [][NextGdpr]_vars

\* The consent functions.
NextConsent ==
  \/ \E email \in Emails, purpose \in Purposes, granted \in BOOLEAN :
       recordConsent(email, purpose, granted)
  \/ \E email \in Emails, purpose \in Purposes : revokeConsent(email, purpose)

SpecConsent == InitGdpr /\ [][NextConsent]_vars

\* The audit row with this id, as the table holds it now, if it does.
Present(k) == {j \in DOMAIN gdpr.logs : gdpr.logs[j].id = k}

\* The row is the inserted one, except that a PII field may have been set
\* to null.
OnlyAnonymized(row, inserted) ==
  /\ [row EXCEPT !.userId = NULL, !.ipAddress = NULL, !.userAgent = NULL]
       = [inserted EXCEPT !.userId = NULL, !.ipAddress = NULL,
                          !.userAgent = NULL]
  /\ row.userId \in {inserted.userId, NULL}
  /\ row.ipAddress \in {inserted.ipAddress, NULL}
  /\ row.userAgent \in {inserted.userAgent, NULL}

\* C21: audit entries are append-only: every audit entry ever created still
\* exists, unchanged except that its PII fields (userId, ipAddress,
\* userAgent) may have been set to null by a deletion request.
C21_AuditAppendOnly ==
  \A k \in DOMAIN gdpr.created :
    /\ Present(k) /= {}
    /\ \A j \in Present(k) : OnlyAnonymized(gdpr.logs[j], gdpr.created[k])

\* C22: when processDeletionRequest has completed for a VERIFIED request
\* whose email belongs to an existing user, every audit entry that recorded
\* that user's actions is still present and has userId, ipAddress and
\* userAgent all null.
C22_DeletionAnonymizes ==
  (/\ gdpr.last.fn = "processDeletionRequest"
   /\ gdpr.last.success
   /\ gdpr.last.hadUser)
    => \A k \in DOMAIN gdpr.created :
         gdpr.created[k].userId = UserIdOf(gdpr.last.email)
           => /\ Present(k) /= {}
              /\ \A j \in Present(k) :
                   /\ gdpr.logs[j].userId = NULL
                   /\ gdpr.logs[j].ipAddress = NULL
                   /\ gdpr.logs[j].userAgent = NULL

\* A successful revokeConsent has just returned: no valid consent is left
\* for its pair.
RevokedMeansInvalid ==
  (gdpr.last.fn = "revokeConsent" /\ gdpr.last.success)
    => ~hasValidConsent(gdpr.consents, gdpr.last.email, gdpr.last.purpose)

\* revokeConsent answers 'No active consent found' exactly when
\* hasValidConsent was false, and then changes no table.
RevokeRefusedIffInvalid ==
  gdpr'.last.fn = "revokeConsent"
    => LET refusedCall == gdpr'.last.error = <<"No active consent found">>
       IN  /\ refusedCall <=> ~hasValidConsent(gdpr.consents, gdpr'.last.email,
                                               gdpr'.last.purpose)
           /\ refusedCall <=> ~gdpr'.last.success
           /\ refusedCall => /\ gdpr'.consents = gdpr.consents
                             /\ gdpr'.logs = gdpr.logs

\* C30: after a successful revokeConsent(email, purpose), whatever consents
\* were recorded before, hasValidConsent(email, purpose) is false until a new
\* consent is recorded; and revokeConsent returns 'No active consent found',
\* changing nothing, exactly when hasValidConsent is false.
C30_RevokeEndsConsent ==
  []RevokedMeansInvalid /\ [][RevokeRefusedIffInvalid]_vars

(***************************************************************************)
(* SpecParse: parseCodeGenerationResponse (src/lib/ai/index.ts).  A        *)
(* response is a sequence of tokens: the braces, the keys "files": and     *)
(* "data":, array literals, a string literal, and a word of prose.         *)
(***************************************************************************)
MaxLen == 5

\* The elements an array literal can hold: two file objects and null.
File1 == [null |-> FALSE, path |-> "package.json",
          content |-> "{\"name\": \"test\"}"]
File2 == [null |-> FALSE, path |-> "src/index.ts",
          content |-> "console.log(\"hello\")"]
JsonNull == [null |-> TRUE, path |-> NULL, content |-> NULL]

\* files.map(file => ({ path: file.path, content: file.content }))
PathsAndContents(items) ==
  [k \in DOMAIN items |->
     [path |-> items[k].path, content |-> items[k].content]]

ArrayTokens == {"[]", "[f1,f2]", "[f2,f1]", "[null]"}
ResponseTokens == {"{", "}", "files", "data", "str", "w"} \cup ArrayTokens

\* The elements of an array literal.
ArrayItems(token) ==
  CASE token = "[]" -> << >>
    [] token = "[f1,f2]" -> <<File1, File2>>
    [] token = "[f2,f1]" -> <<File2, File1>>
    [] token = "[null]" -> <<JsonNull>>

\* JSON values: every one is a record with a type.
JsonUndefined == [type |-> "undefined"]
JsonString == [type |-> "string"]
JsonArray(token) == [type |-> "array", items |-> ArrayItems(token)]
JsonObject(files, data) == [type |-> "object", files |-> files, data |-> data]
JsonFail == [ok |-> FALSE, next |-> 0, value |-> JsonUndefined]

\* JSON.parse, by recursive descent: the value that starts at token i, and
\* the members of an object up to its closing brace (a repeated key keeps
\* its last value).
RECURSIVE JsonValue(_, _), JsonMembers(_, _, _)
JsonValue(t, i) ==
  IF i > Len(t) THEN JsonFail
  ELSE IF t[i] \in ArrayTokens
       THEN [ok |-> TRUE, next |-> i + 1, value |-> JsonArray(t[i])]
  ELSE IF t[i] = "str"
       THEN [ok |-> TRUE, next |-> i + 1, value |-> JsonString]
  ELSE IF t[i] = "{"
       THEN JsonMembers(t, i + 1, JsonObject(JsonUndefined, JsonUndefined))
  ELSE JsonFail

JsonMembers(t, i, obj) ==
  IF i > Len(t) THEN JsonFail
  ELSE IF t[i] = "}" THEN [ok |-> TRUE, next |-> i + 1, value |-> obj]
  ELSE IF t[i] \in {"files", "data"}
       THEN LET v == JsonValue(t, i + 1)
            IN  IF v.ok
                THEN JsonMembers(t, v.next,
                                 [obj EXCEPT ![t[i]] = v.value])
                ELSE JsonFail
  ELSE JsonFail

\* JSON.parse(text): the whole text is one value, or a SyntaxError.
JSON_parse(t) ==
  LET v == JsonValue(t, 1)
  IN  IF v.ok /\ v.next = Len(t) + 1 THEN v ELSE JsonFail

\* response.match(/\{[\s\S]*"files"[\s\S]*\}/): from the first opening
\* brace to the last closing brace, with "files" somewhere between; the
\* empty sequence if there is no match.
JsonMatch(t) ==
  LET opens == {i \in DOMAIN t : t[i] = "{"}
      closes == {j \in DOMAIN t : t[j] = "}"}
  IN  IF \E i \in opens, j \in closes :
           \E k \in DOMAIN t : i < k /\ k < j /\ t[k] = "files"
      THEN LET first == CHOOSE i \in opens : \A x \in opens : i <= x
               last == CHOOSE j \in closes : \A x \in closes : x <= j
           IN  SubSeq(t, first, last)
      ELSE << >>

\* The body of the try block: the files, or the error thrown inside it.
ParseAttempt(response) ==
  LET jsonMatch == JsonMatch(response)
      parsed == JSON_parse(jsonMatch)
  IN  IF jsonMatch = << >>
      THEN [files |-> << >>,
            cause |-> <<"No valid JSON found in response">>]
      ELSE IF ~parsed.ok
      THEN [files |-> << >>, cause |-> <<"SyntaxError">>]
      ELSE IF parsed.value.files.type /= "array"
      THEN [files |-> << >>,
            cause |-> <<"Response does not contain files array">>]
      ELSE IF \E k \in DOMAIN parsed.value.files.items :
                parsed.value.files.items[k].null
      THEN [files |-> << >>, cause |-> <<"TypeError">>]
      ELSE [files |-> PathsAndContents(parsed.value.files.items),
            cause |-> NoError]

\* A catch block that lets the error through.
parseCodeGenerationResponse_Rethrow(response) ==
  LET attempt == ParseAttempt(response)
  IN  [files |-> attempt.files, cause |-> attempt.cause,
       error |-> attempt.cause]

\* parseCodeGenerationResponse(response): whatever is thrown inside the try
\* is replaced by the one parse error.
parseCodeGenerationResponse(response) ==
  LET attempt == ParseAttempt(response)
  IN  [files |-> attempt.files, cause |-> attempt.cause,
       error |-> IF attempt.cause /= NoError THEN ParseError ELSE NoError]

RECURSIVE TokenSeqs(_)
TokenSeqs(n) ==
  IF n = 0 THEN {<< >>}
  ELSE LET shorter == TokenSeqs(n - 1)
       IN  shorter \cup {Append(t, x) : t \in {u \in shorter : Len(u) = n - 1},
                                         x \in ResponseTokens}

NotParse ==
  <<project, codeGenerations, deployments, auditLogs, req, env, started,
    refused, lastUpdate, pipe, llm, push, gdpr, authz>>

InitParse ==
  /\ FlowIdle
  /\ env = Tokens
  /\ lastUpdate = NoUpdate
  /\ pipe = IdlePipe
  /\ llm = IdleLLM
  /\ push = IdlePush
  /\ gdpr = IdleGdpr
  /\ \E response \in TokenSeqs(MaxLen) :
       parse = [IdleParse EXCEPT !.response = response]
  /\ authz = IdleAuthz

\* The call returns or throws.
ParseCall ==
  /\ parse.pc = "idle"
  /\ parse' = Merge(parse, [pc |-> "done"]
                             @@ parseCodeGenerationResponse(parse.response))
  /\ UNCHANGED NotParse

NextParse == ParseCall

SpecParse == InitParse /\ [][NextParse]_vars

\* The three causes the claim names, and a null element of the array.
ParseCauses ==
  {<<"No valid JSON found in response">>, <<"SyntaxError">>,
   <<"Response does not contain files array">>, <<"TypeError">>}

\* C23: every way parseCodeGenerationResponse can fail produces the same
\* single error 'Failed to parse generated code response'; the cause is
\* never what the caller gets.
C23_SingleParseError ==
  parse.pc = "done"
    => /\ parse.cause \in ParseCauses => parse.error = ParseError
       /\ parse.cause = NoError => parse.error = NoError
       /\ parse.error \notin ParseCauses

C23_Witness ==
  /\ parse.pc = "done"
  /\ parse.cause = <<"SyntaxError">>
  /\ parse.error = ParseError

\* The files array of the token range a..b of the response, if that range
\* is by itself a JSON object whose files is an array of file objects.
BlockFiles(t, a, b) ==
  LET v == IF a <= b /\ t[a] = "{"
           THEN JSON_parse(SubSeq(t, a, b)) ELSE JsonFail
  IN  IF /\ v.ok
         /\ v.value.files.type = "array"
      THEN IF \A k \in DOMAIN v.value.files.items :
                ~v.value.files.items[k].null
           THEN [valid |-> TRUE, items |-> v.value.files.items]
           ELSE [valid |-> FALSE, items |-> << >>]
      ELSE [valid |-> FALSE, items |-> << >>]

\* C24: for a response that is a valid JSON object with a files array, with
\* or without surrounding prose of any content, the call returns exactly
\* the (path, content) pairs of that array, in order; an empty array gives
\* the empty list.
C24_FilesVerbatim ==
  parse.pc = "done"
    => \A a, b \in DOMAIN parse.response :
         LET block == BlockFiles(parse.response, a, b)
         IN  block.valid
               => /\ parse.error = NoError
                  /\ parse.files = PathsAndContents(block.items)

(***************************************************************************)
(* The handlers and the transition table together.                         *)
(***************************************************************************)
\* A step in which the owner's generation request is accepted.
GenerationStarts == GenerateBegin(Owner) /\ started' = started + 1

\* A step in which the owner's deployment request is accepted.
DeploymentStarts ==
  DeployBegin(Owner, "vercel", FALSE) /\ started' = started + 1

\* C25: FAILED is not a dead end: from a Project in FAILED a fresh attempt
\* can be started through the handlers: a generation (towards GENERATING),
\* a deployment when there are generated files, as after a failed
\* deployment (towards DEPLOYING), and a step that takes the Project back
\* to DRAFT.
C25_FailedNotDeadEnd ==
  (project.status = "FAILED" /\ started < MaxRequests)
    => /\ ENABLED GenerationStarts
       /\ project.generatedFiles /= NULL => ENABLED DeploymentStarts
       /\ ENABLED (Next /\ project'.status = "DRAFT")

\* The COMPLETED CodeGenerations, and the one completed last.
CompletedGenerations ==
  {k \in DOMAIN codeGenerations : codeGenerations[k].status = "COMPLETED"}

CompletedBefore(j, k) ==
  \E m, n \in 1..Len(codeGenerations) :
    /\ m < n
    /\ codeGenerations[j].completedAt = ToString(m)
    /\ codeGenerations[k].completedAt = ToString(n)

LastCompleted ==
  CHOOSE k \in CompletedGenerations :
    \A j \in CompletedGenerations \ {k} : CompletedBefore(j, k)

GenerationInFlight ==
  \E r \in Requests : req[r].kind = "generate" /\ InFlight(r)

\* C27: every Project status write made by the generation and deployment
\* flows is a transition the table lists (or leaves the status as it is),
\* whatever status the Project has when the write is made: GENERATING at
\* the start of a generation, and GENERATED, DEPLOYING, DEPLOYED, FAILED.
C27_WritesAreLegal ==
  [][\A r \in Requests : \A w \in StatusWrites :
       (req[r].pc = w[1] /\ req'[r].pc /= w[1])
         => \/ project.status = w[2]
            \/ w[2] \in valid_transitions[project.status]]_vars

\* C28: whenever no generation request is in flight and the Project has a
\* COMPLETED CodeGeneration, the Project's generatedFiles are the output of
\* the CodeGeneration completed last.
C28_FilesOfLastCompleted ==
  (~GenerationInFlight /\ CompletedGenerations /= {})
    => project.generatedFiles = codeGenerations[LastCompleted].output


(***************************************************************************)
(* SpecAuthz: the checks of the four routes that change a Project          *)
(* (src/app/api/generate/route.ts): generate, deploy, PATCH and DELETE.    *)
(* Accepted generate and deploy requests stay at their first write here;   *)
(* their later steps are the subject of Spec and SpecConcurrent.           *)
(***************************************************************************)
Stranger == [id |-> "u2", role |-> "USER"]
Admin == [id |-> "u3", role |-> "ADMIN"]
AuthzSessions == {NoSession, Owner, Stranger, Admin}
AuthzKinds == {"generate", "deploy"}
\* Statements of a handler that succeed before the datastore fails.
Statements == 0..2
\* Requests taken past their checks, and PATCH requests applied.
MaxAccepted == 1
MaxPatches == 1

\* audit.update(userId, resource, resourceId, oldValue, newValue)
audit_update(userId, resource, resourceId) ==
  createAuditLog([userId |-> userId, action |-> "UPDATE", resource |-> resource,
                  resourceId |-> resourceId, severity |-> NULL,
                  category |-> "data_access", error |-> NoError,
                  subject |-> resourceId])

\* audit.delete(userId, resource, resourceId, oldValue)
audit_delete(userId, resource, resourceId) ==
  createAuditLog([userId |-> userId, action |-> "DELETE", resource |-> resource,
                  resourceId |-> resourceId, severity |-> "WARNING",
                  category |-> "data_access", error |-> NoError,
                  subject |-> resourceId])

NotAuthz == <<env, lastUpdate, pipe, llm, push, gdpr, parse>>

InitAuthz ==
  /\ \/ /\ project = NewProject
        /\ codeGenerations = << >>
        /\ auditLogs = << >>
     \/ /\ project = GeneratedProject
        /\ codeGenerations = <<CompletedCodeGeneration>>
        /\ auditLogs = <<audit_create(OwnerId, "CodeGeneration", 1)>>
  /\ deployments = << >>
  /\ req = [r \in Requests |-> IdleRequest]
  /\ started = 0
  /\ refused = NoRefusal
  /\ env = {"VERCEL_TOKEN"}
  /\ lastUpdate = NoUpdate
  /\ pipe = IdlePipe
  /\ llm = IdleLLM
  /\ push = IdlePush
  /\ gdpr = IdleGdpr
  /\ parse = IdleParse
  /\ authz = IdleAuthz

\* NextResponse.json(..., {status}) of PATCH and DELETE.
Answer(kind, session, status) ==
  [authz EXCEPT !.last = [kind |-> kind, session |-> session,
                          status |-> status]]

\* A handler that returns at one of its checks.
TurnedAway(kind, session, status) ==
  /\ authz' = Answer(kind, session, status)
  /\ UNCHANGED <<project, codeGenerations, deployments, auditLogs, req,
                 started, refused>>

\* POST generate and POST deploy while the Project row exists.
AuthzGenerate(session) ==
  /\ authz.exists
  /\ GenerateBegin(session)
  /\ started' <= MaxAccepted

AuthzDeploy(session, provider) ==
  /\ authz.exists
  /\ DeployBegin(session, provider, FALSE)
  /\ started' <= MaxAccepted

\* POST generate (lines 26-42) and POST deploy (lines 245-269) after the row
\* was deleted: findUnique returns null.
AuthzNotFound(kind, session, provider) ==
  /\ ~authz.exists
  /\ refused' =
       IF session = NoSession
       THEN Refusal(kind, 401, <<"Unauthorized">>)
       ELSE IF kind = "deploy" /\ provider \notin getConfiguredProviders(env)
       THEN Refusal(kind, 400, <<"Provider % is not configured", provider>>)
       ELSE Refusal(kind, 404, <<"Project not found">>)
  /\ UNCHANGED <<project, codeGenerations, deployments, auditLogs, req,
                 started, authz>>
  /\ UNCHANGED NotAuthz

\* PATCH /api/projects/[id], lines 546-608.  valid: the body passes
\* updateProjectSchema; upto: the statements that succeed.
PatchProject(session, valid, upto) ==
  /\ IF session = NoSession
     THEN TurnedAway("patch", session, 401)
     ELSE IF ~valid
     THEN TurnedAway("patch", session, 400)
     ELSE IF ~authz.exists
     THEN TurnedAway("patch", session, 404)
     ELSE IF Forbidden(session)
     THEN TurnedAway("patch", session, 403)
     ELSE IF upto = 0
     THEN TurnedAway("patch", session, 500)
     ELSE /\ project.version <= MaxPatches
          /\ project' =
               ProjectUpdate(project, [version |-> project.version + 1]).row
          /\ auditLogs' = IF upto = 2
                          THEN Append(auditLogs,
                                      audit_update(session.id, "Project", 1))
                          ELSE auditLogs
          /\ authz' = Answer("patch", session, IF upto = 2 THEN 200 ELSE 500)
          /\ UNCHANGED <<codeGenerations, deployments, req, started, refused>>
  /\ UNCHANGED NotAuthz

\* DELETE /api/projects/[id], lines 613-654.  The rows that reference the
\* Project go with it (ON DELETE CASCADE).
DeleteProject(session, upto) ==
  /\ IF session = NoSession
     THEN TurnedAway("delete", session, 401)
     ELSE IF ~authz.exists
     THEN TurnedAway("delete", session, 404)
     ELSE IF Forbidden(session)
     THEN TurnedAway("delete", session, 403)
     ELSE IF upto = 0
     THEN TurnedAway("delete", session, 500)
     ELSE /\ authz' = [exists |-> FALSE,
                       last |-> [kind |-> "delete", session |-> session,
                                 status |-> IF upto = 2 THEN 200 ELSE 500]]
          /\ codeGenerations' = << >>
          /\ deployments' = << >>
          /\ auditLogs' = IF upto = 2
                          THEN Append(auditLogs,
                                      audit_delete(session.id, "Project", 1))
                          ELSE auditLogs
          /\ UNCHANGED <<project, req, started, refused>>
  /\ UNCHANGED NotAuthz

NextAuthz ==
  \/ \E session \in AuthzSessions : AuthzGenerate(session)
  \/ \E session \in AuthzSessions, provider \in FlowProviders :
       AuthzDeploy(session, provider)
  \/ \E kind \in AuthzKinds, session \in AuthzSessions,
        provider \in FlowProviders : AuthzNotFound(kind, session, provider)
  \/ \E session \in AuthzSessions, valid \in BOOLEAN, upto \in Statements :
       PatchProject(session, valid, upto)
  \/ \E session \in AuthzSessions, upto \in Statements :
       DeleteProject(session, upto)

SpecAuthz == InitAuthz /\ [][NextAuthz]_vars

\* A step that writes the datastore, appends an audit entry, or takes a
\* request past its checks (the external calls are made by accepted
\* requests only).
Effect ==
  \/ project' /= project
  \/ codeGenerations' /= codeGenerations
  \/ deployments' /= deployments
  \/ auditLogs' /= auditLogs
  \/ req' /= req
  \/ started' /= started
  \/ authz'.exists /= authz.exists

\* A request of this caller to the generate or deploy route, and to the
\* PATCH or DELETE route.
PostBy(session) ==
  \/ AuthzGenerate(session)
  \/ \E provider \in FlowProviders : AuthzDeploy(session, provider)
  \/ \E kind \in AuthzKinds, provider \in FlowProviders :
       AuthzNotFound(kind, session, provider)

ChangeBy(session) ==
  \/ \E valid \in BOOLEAN, upto \in Statements :
       PatchProject(session, valid, upto)
  \/ \E upto \in Statements : DeleteProject(session, upto)

\* The caller's request has no effect and is answered with one of codes.
RejectedWith(session, codes) ==
  /\ PostBy(session) => ~Effect /\ refused'.response.status \in codes
  /\ ChangeBy(session) => ~Effect /\ authz'.last.status \in codes

\* Who made the step that had an effect.
Actor ==
  IF started' /= started THEN req'[started'].session ELSE authz'.last.session

OnlyOwnerOrAdminChanges ==
  Effect => /\ Actor /= NoSession
            /\ Actor.id = OwnerId \/ Actor.role /= "USER"

====
